---- MODULE Spec2Model ----
(***************************************************************************)
(* State-machine model of the acquisition pipeline of estate_skewness:     *)
(* the JSON file cache (data_fetcher.py _cache_key/_read_cache/            *)
(* _write_cache), the three acquisition tasks driven by main.py            *)
(* (fetch_municipalities, fetch_all_transactions with                      *)
(* _migrate_old_pref_cache, fetch_official_prices with                     *)
(* _scan_tiles_for_region) and the tile mapper (tile_utils.py).            *)
(*                                                                         *)
(* Text values that the code slices or searches (codes, Period) are        *)
(* sequences of one-character strings; other text is a TLA+ string.        *)
(* Geographic degrees are integers in hundredths of a degree.              *)
(***************************************************************************)
EXTENDS Integers, Sequences, FiniteSets, TLC

\* Bounds of the model.
MaxRuns == 3
MaxFailures == 1

VARIABLES
  config,    \* the values of config.py the acquisition reads
  cache,     \* CACHE_DIR: key -> [complete, data]; the domain is the set of files
  failing,   \* the external source: the requests that raise or are answered badly
  pc,        \* position of the process in main() / the fetcher
  run,       \* number of process starts so far
  ix,        \* loop indices of the running task
  acc,       \* local accumulators of the running task
  wr,        \* the _write_cache call in progress
  ret,       \* values returned to main() by the tasks in this run
  prev,      \* history: values the tasks returned in earlier runs
  calls,     \* history: external calls issued in this run, in order
  wlog,      \* history: keys passed to _write_cache, over all runs
  runWrites, \* history: tasks whose _write_cache ran in this run
  startKeys, \* history: readable cache keys when this run started
  prov,      \* history: key -> the configuration its chunk was written under
  err,       \* history: why the run aborted
  keyTest,   \* the two parameter mappings given to _cache_key, and its results
  bnd,       \* fetch_municipality_boundaries and the rest of main()
  proc,      \* DataProcessor: its inputs, intermediate frames and result
  tiling,    \* a call of get_tiles_for_bbox: its arguments and result
  removed,   \* history: the cache entries the operator deleted, and after which run
  workers,   \* acquisition processes sharing the cache: their positions and locals
  fetched    \* history: the prefectures whose catalog earlier runs were answered

vars == <<config, cache, failing, pc, run, ix, acc, wr, ret, prev, calls,
          wlog, runWrites, startKeys, prov, err, keyTest, bnd, proc, tiling,
          removed, workers, fetched>>

\* The variables of the acquisition tasks.
fetchVars == <<config, cache, failing, pc, run, ix, acc, wr, ret, prev, calls,
               wlog, runWrites, startKeys, prov, err, removed, workers, fetched>>

----------------------------------------------------------------------------
\* Generic sequence helpers.

RECURSIVE Flatten(_)
Flatten(ss) == IF ss = <<>> THEN <<>> ELSE Head(ss) \o Flatten(Tail(ss))

Range(s) == {s[i] : i \in DOMAIN s}

IsSub(s, t) ==
  \E i \in 1..(Len(t) - Len(s) + 1) : SubSeq(t, i, i + Len(s) - 1) = s

RECURSIVE JoinChars(_)
JoinChars(cs) == IF cs = <<>> THEN "" ELSE Head(cs) \o JoinChars(Tail(cs))

\* str(n) for n >= 0, as characters.
RECURSIVE Digits(_)
Digits(n) ==
  IF n < 10 THEN <<ToString(n)>> ELSE Digits(n \div 10) \o <<ToString(n % 10)>>

RECURSIVE SubsetsUpTo(_, _)
SubsetsUpTo(S, k) ==
  IF k = 0 THEN {{}}
  ELSE LET P == SubsetsUpTo(S, k - 1)
       IN  P \cup {p \cup {x} : p \in P, x \in S}

----------------------------------------------------------------------------
\* config.py (a reduced instance: two prefectures, two years, two quarters,
\* two overlapping regions with ASCII names).

P01 == <<"0", "1">>
P02 == <<"0", "2">>

RegionA == [name |-> "Hokkaido", north |-> 4160, south |-> 4158,
            west |-> 13930, east |-> 13932]
RegionB == [name |-> "Tohoku", north |-> 4160, south |-> 4158,
            west |-> 13931, east |-> 13936]

BaseConfig ==
  [PREF_CODES           |-> <<P01, P02>>,
   TRANSACTION_YEARS    |-> <<2024, 2025>>,
   TRANSACTION_QUARTERS |-> <<1, 2>>,
   OFFICIAL_PRICE_YEARS |-> <<2024, 2025>>,
   TILE_ZOOM            |-> 13,
   REGION_BBOXES        |-> <<RegionA, RegionB>>]

PREF_CODES == config.PREF_CODES
TRANSACTION_YEARS == config.TRANSACTION_YEARS
TRANSACTION_QUARTERS == config.TRANSACTION_QUARTERS
OFFICIAL_PRICE_YEARS == config.OFFICIAL_PRICE_YEARS
TILE_ZOOM == config.TILE_ZOOM
REGION_BBOXES == config.REGION_BBOXES

\* The year list hard-coded in _migrate_old_pref_cache.
OLD_YEARS == <<2022, 2023, 2024>>

----------------------------------------------------------------------------
\* JSON values and json.dumps(params, sort_keys=True).

JInt(n) == [t |-> "int", v |-> n]
JFloat(h) == [t |-> "float", v |-> h]      \* h: hundredths
JStr(s) == [t |-> "str", v |-> s]          \* s: a TLA+ string
JList(xs) == [t |-> "list", v |-> xs]
JDict(ps) == [t |-> "dict", v |-> ps]      \* ps: <<name, value>> in insertion order

\* Alphabetical order of the parameter names the code uses.
KeyNames == <<"bbox", "east", "north", "pref", "prefs", "quarters", "region",
              "regions", "south", "west", "year", "years", "zoom">>

KeyRank(name) == CHOOSE i \in DOMAIN KeyNames : KeyNames[i] = name

\* The pairs of a dict ordered by name (insertion sort, stable).
RECURSIVE InsertPair(_, _)
InsertPair(p, sorted) ==
  IF sorted = <<>> THEN <<p>>
  ELSE IF KeyRank(p[1]) < KeyRank(Head(sorted)[1]) THEN <<p>> \o sorted
  ELSE <<Head(sorted)>> \o InsertPair(p, Tail(sorted))

RECURSIVE SortedPairs(_)
SortedPairs(ps) ==
  IF ps = <<>> THEN <<>>
  ELSE InsertPair(ps[Len(ps)], SortedPairs(SubSeq(ps, 1, Len(ps) - 1)))

\* repr of a float with at most two decimals: 41.6, 139.32, 45.0.
FloatRepr(h) ==
  LET whole == h \div 100
      frac == h % 100
  IN  ToString(whole) \o "." \o
      (IF frac % 10 = 0 THEN ToString(frac \div 10)
       ELSE IF frac < 10 THEN "0" \o ToString(frac)
       ELSE ToString(frac))

RECURSIVE JoinWith(_, _)
JoinWith(strs, sep) ==
  IF strs = <<>> THEN ""
  ELSE IF Len(strs) = 1 THEN strs[1]
  ELSE strs[1] \o sep \o JoinWith(Tail(strs), sep)

\* Mutant of DictOrder: sort_keys is left out and the pairs stay in insertion
\* order.
DictOrderInsertion(ps) == ps

\* sort_keys=True
DictOrder(ps) == SortedPairs(ps)

Quote(s) == "\"" \o s \o "\""

RECURSIVE Dumps(_)
Dumps(j) ==
  CASE j.t = "int" -> ToString(j.v)
    [] j.t = "float" -> FloatRepr(j.v)
    [] j.t = "str" -> Quote(j.v)
    [] j.t = "list" ->
         "[" \o JoinWith([i \in DOMAIN j.v |-> Dumps(j.v[i])], ", ") \o "]"
    [] j.t = "dict" ->
         LET ps == DictOrder(j.v)
         IN  "{" \o JoinWith([i \in DOMAIN ps |->
                    Quote(ps[i][1]) \o ": " \o Dumps(ps[i][2])], ", ") \o "}"

\* _cache_key: f"{prefix}_{h}". h stands for the first 12 hex digits of the
\* MD5 of the dumped text; the model keeps the dumped text itself, i.e. it
\* takes the digest to be collision-free on the parameter sets it meets.
CacheKey(prefix, params) == [prefix |-> prefix, h |-> Dumps(JDict(params))]

----------------------------------------------------------------------------
\* The cache directory.

None == [present |-> FALSE, ok |-> TRUE, data |-> <<>>]

Truncated == [complete |-> FALSE, data |-> <<>>]

\* Mutant of ReadCache: the existence test looks at the wrong path and never
\* finds the file.
ReadCacheMiss(key) == None

\* _read_cache: None when the file is absent; json.load raises on a file
\* left empty or cut short (ok = FALSE); otherwise the stored payload.
ReadCache(key) ==
  IF key \notin DOMAIN cache THEN None
  ELSE IF ~cache[key].complete THEN [present |-> TRUE, ok |-> FALSE, data |-> <<>>]
  ELSE [present |-> TRUE, ok |-> TRUE, data |-> cache[key].data]

\* The file after open(path, "w"): it exists and is empty.
OpenedFile(c, key) == (key :> Truncated) @@ c

\* The file after json.dump and close.
DumpedFile(c, key, data) == (key :> [complete |-> TRUE, data |-> data]) @@ c

----------------------------------------------------------------------------
\* The external source (ReinfolibClient.get behind its retries).

Req(ep, code, year, q, x, y) ==
  [ep |-> ep, code |-> code, year |-> year, q |-> q, x |-> x, y |-> y]

ReqCatalog(pref) == Req("XIT002", pref, 0, 0, 0, 0)
ReqTx(city, year, q) == Req("XIT001", city, year, q, 0, 0)
ReqTile(year, z, x, y) == Req("XPT002", <<>>, year, z, x, y)

\* The catalog the source serves for a prefecture.
CatalogData(pref) ==
  IF pref = P01
  THEN <<[id |-> <<"0", "1", "1", "0", "0">>, name |-> "Sapporo"],
         [id |-> <<"0", "1", "2", "0", "2">>, name |-> "Hakodate"]>>
  ELSE IF pref = P02
  THEN <<[id |-> <<"0", "2", "2", "0", "1">>, name |-> "Aomori"]>>
  ELSE <<>>

Period(year, q) == Digits(year) \o <<"-", "Q">> \o Digits(q)

\* The records the source serves for one city, year and quarter: none for the
\* second quarter of Hakodate (an area without activity), one otherwise.
TxData(city, year, q) ==
  IF city = <<"0", "1", "2", "0", "2">> /\ q = 2 THEN <<>>
  ELSE <<[Period |-> Period(year, q), MunicipalityCode |-> city,
          TradePrice |-> 100 * q]>>

\* The features the source serves for one tile and year: two points with the
\* same coordinates and different codes in column 7266, one point elsewhere.
Feature(code, lon, lat) ==
  [properties |-> [u_standard_address_code |-> code],
   geometry |-> [coordinates |-> <<lon, lat>>]]

TileData(year, x, y) ==
  IF x = 7266
  THEN <<Feature(x * 10 + 1, 13931, 4159), Feature(x * 10 + 2, 13931, 4159)>>
  ELSE <<Feature(x * 10 + 1, 13900 + (x - 7259) * 5, 4159)>>

----------------------------------------------------------------------------
\* tile_utils.py

Pow2(z) == 2 ^ z

\* int(): truncation toward zero.
TruncDiv(a, b) == IF a >= 0 THEN a \div b ELSE -((-a) \div b)

\* int(65536 * (1 - asinh(tan(radians(lat))) / pi) / 2) for the latitudes
\* (hundredths of a degree) the model uses.  The fraction is 0 at the
\* northern limit of the tile grid (85.0511 degrees), negative beyond it, and
\* exactly 1/2 on the equator.
MercFrac16(lat) ==
  CASE lat = 4160 -> 24425
    [] lat = 4158 -> 24430
    [] lat = 4156 -> 24435
    [] lat = 4154 -> 24440
    [] lat = 4150 -> 24450
    [] lat = 4130 -> 24498
    [] lat = 0 -> 32768
    [] lat = -4160 -> 41110
    [] lat = 6651 -> 16385
    [] lat = 8505 -> 2
    [] lat = 8506 -> -18
    [] lat = 8900 -> -16686

\* Mutant of deg2tile: the column is rounded up.
deg2tileCeil(lat, lon, zoom) ==
  LET n == Pow2(zoom)
  IN  <<TruncDiv((lon + 18000) * n + 35999, 36000),
        TruncDiv(MercFrac16(lat), 65536 \div n)>>

deg2tile(lat, lon, zoom) ==
  LET n == Pow2(zoom)
  IN  <<TruncDiv((lon + 18000) * n, 36000), TruncDiv(MercFrac16(lat), 65536 \div n)>>

\* Mutant of get_tiles_for_bbox: range(x_min, x_max), range(y_min, y_max).
get_tiles_exclusive(north, south, west, east, zoom) ==
  LET nw == deg2tile(north, west, zoom)
      se == deg2tile(south, east, zoom)
      xs == [i \in 1..(se[1] - nw[1]) |-> nw[1] + i - 1]
      ys == [i \in 1..(se[2] - nw[2]) |-> nw[2] + i - 1]
  IN  Flatten([i \in DOMAIN xs |-> [j \in DOMAIN ys |-> <<xs[i], ys[j]>>]])

get_tiles_for_bbox(north, south, west, east, zoom) ==
  LET nw == deg2tile(north, west, zoom)
      se == deg2tile(south, east, zoom)
      xs == [i \in 1..(se[1] - nw[1] + 1) |-> nw[1] + i - 1]
      ys == [i \in 1..(se[2] - nw[2] + 1) |-> nw[2] + i - 1]
  IN  Flatten([i \in DOMAIN xs |-> [j \in DOMAIN ys |-> <<xs[i], ys[j]>>]])

RegionTiles(region) ==
  get_tiles_for_bbox(region.north, region.south, region.west, region.east,
                     TILE_ZOOM)

----------------------------------------------------------------------------
\* The cache keys of the chunks.

PrefList == JList([i \in DOMAIN PREF_CODES |-> JStr(JoinChars(PREF_CODES[i]))])
QuarterList ==
  JList([i \in DOMAIN TRANSACTION_QUARTERS |-> JInt(TRANSACTION_QUARTERS[i])])
IntList(ys) == JList([i \in DOMAIN ys |-> JInt(ys[i])])
RegionNames == JList([i \in DOMAIN REGION_BBOXES |-> JStr(REGION_BBOXES[i].name)])

MuniKey == CacheKey("municipalities", <<<<"prefs", PrefList>>>>)

OldKey(pref) ==
  CacheKey("transactions_" \o JoinChars(pref),
           <<<<"pref", JStr(JoinChars(pref))>>,
             <<"years", IntList(OLD_YEARS)>>,
             <<"quarters", QuarterList>>>>)

\* Mutant of TxYearKey: the year is left out of the prefix and the parameters.
TxYearKeyNoYear(pref, year) ==
  CacheKey("tx_" \o JoinChars(pref),
           <<<<"pref", JStr(JoinChars(pref))>>,
             <<"quarters", QuarterList>>>>)

TxYearKey(pref, year) ==
  CacheKey("tx_" \o JoinChars(pref) \o "_" \o ToString(year),
           <<<<"pref", JStr(JoinChars(pref))>>,
             <<"year", JInt(year)>>,
             <<"quarters", QuarterList>>>>)

\* Mutant of TxAllKey: the merged transactions are stored under the top-level
\* key of the appraisals task.
TxAllKeyOfAppraisals ==
  CacheKey("official_prices_all",
           <<<<"years", IntList(OFFICIAL_PRICE_YEARS)>>,
             <<"zoom", JInt(TILE_ZOOM)>>,
             <<"regions", RegionNames>>>>)

TxAllKey ==
  CacheKey("transactions_all",
           <<<<"prefs", PrefList>>,
             <<"years", IntList(TRANSACTION_YEARS)>>,
             <<"quarters", QuarterList>>>>)

OpAllKey ==
  CacheKey("official_prices_all",
           <<<<"years", IntList(OFFICIAL_PRICE_YEARS)>>,
             <<"zoom", JInt(TILE_ZOOM)>>,
             <<"regions", RegionNames>>>>)

OpYearKey(year) ==
  CacheKey("official_prices_" \o ToString(year),
           <<<<"year", JInt(year)>>,
             <<"zoom", JInt(TILE_ZOOM)>>,
             <<"regions", RegionNames>>>>)

OpRegionKey(year, region) ==
  CacheKey("official_" \o ToString(year) \o "_" \o region.name,
           <<<<"year", JInt(year)>>,
             <<"region", JStr(region.name)>>,
             <<"zoom", JInt(TILE_ZOOM)>>,
             <<"bbox", JDict(<<<<"north", JFloat(region.north)>>,
                               <<"south", JFloat(region.south)>>,
                               <<"west", JFloat(region.west)>>,
                               <<"east", JFloat(region.east)>>>>)>>>>)

----------------------------------------------------------------------------
\* Pure steps of the tasks.

\* pref_munis.get(pref_code, []): the municipalities whose code starts with
\* the prefecture code, in catalog order.
CityPref(muni) == SubSeq(muni.id, 1, IF Len(muni.id) < 2 THEN Len(muni.id) ELSE 2)

PrefMunis(municipalities, pref_code) ==
  SelectSeq(municipalities, LAMBDA m : CityPref(m) = pref_code)

\* Mutant of StampTx: the record is stamped with the prefecture code and the
\* name of the first municipality of the catalog.
StampTxPref(r, muni) ==
  [Period |-> r.Period, MunicipalityCode |-> r.MunicipalityCode,
   TradePrice |-> r.TradePrice, _city_code |-> SubSeq(muni.id, 1, 2),
   _city_name |-> "Sapporo"]

\* r["_city_code"] = city_code; r["_city_name"] = city_name
StampTx(r, muni) ==
  [Period |-> r.Period, MunicipalityCode |-> r.MunicipalityCode,
   TradePrice |-> r.TradePrice, _city_code |-> muni.id, _city_name |-> muni.name]

\* How a call ends for its caller: "ok", "skip" (the exception is caught by
\* the except clause around the call) or "raise" (it leaves the function).
\* fetch_municipalities calls the client outside any try block.
MuniGet(rq) == IF rq \in failing THEN "raise" ELSE "ok"

\* Mutants of TxTry and TileTry: the call stands outside the try block.
TxTryUncaught(rq) == IF rq \in failing THEN "raise" ELSE "ok"

TileTryUncaught(rq) == IF rq \in failing THEN "raise" ELSE "ok"

\* Names, in `failing`, the request rq as one the source answers with a
\* payload whose last item is not what the processing expects: a transaction
\* record that is no mapping, a feature whose geometry is null.
Malformed(rq) == [rq EXCEPT !.ep = rq.ep \o "/malformed"]

\* try: self._client.get("XIT001", ...) ... except Exception.  The records
\* are stamped in a loop and added by one extend after it: a record that
\* cannot be stamped leaves year_records as it was.
TxTry(rq) == IF rq \in failing \/ Malformed(rq) \in failing THEN "skip" ELSE "ok"

\* try: self._client.get_geojson("XPT002", ...) ... except Exception.  Each
\* feature is stamped and appended inside the loop: when a feature cannot be
\* stamped, those before it are in records already ("partial").
TileTry(rq) ==
  IF rq \in failing THEN "skip"
  ELSE IF Malformed(rq) \in failing THEN "partial"
  ELSE "ok"

\* What the try block adds to year_records when the call returns.
TxCallRecords(muni, year, quarter) ==
  LET records == TxData(muni.id, year, quarter)
  IN  [i \in DOMAIN records |-> StampTx(records[i], muni)]

\* props["_lon"], props["_lat"], props["_year"]
StampFeature(f, year) ==
  [u_standard_address_code |-> f.properties.u_standard_address_code,
   _lon |-> f.geometry.coordinates[1], _lat |-> f.geometry.coordinates[2],
   _year |-> year]

\* What the try block appends to records when the call returns.
TileCallRecords(tile, year) ==
  LET features == TileData(year, tile[1], tile[2])
  IN  [i \in DOMAIN features |-> StampFeature(features[i], year)]

\* The dedup pass of fetch_official_prices.
DedupKey(rec) == <<rec._lat, rec._lon, rec._year, rec.u_standard_address_code>>

RECURSIVE DedupFrom(_, _)
DedupFrom(recs, seen) ==
  IF recs = <<>> THEN <<>>
  ELSE IF DedupKey(Head(recs)) \in seen THEN DedupFrom(Tail(recs), seen)
  ELSE <<Head(recs)>> \o DedupFrom(Tail(recs), seen \cup {DedupKey(Head(recs))})

\* Mutant of Dedup: the pass is skipped.
DedupNone(year_records) == year_records

Dedup(year_records) == DedupFrom(year_records, {})

\* by_year of _migrate_old_pref_cache, in dict insertion order.
RECURSIVE FirstYearIn(_, _)
FirstYearIn(period, years) ==
  IF years = <<>> THEN 0
  ELSE IF IsSub(Digits(Head(years)), period) THEN Head(years)
  ELSE FirstYearIn(period, Tail(years))

RECURSIVE AddByYearReplace(_, _, _)
\* Mutant of AddByYear: the list of the year is replaced, not appended to.
AddByYearReplace(by_year, y, rec) ==
  IF by_year = <<>> THEN <<[year |-> y, records |-> <<rec>>]>>
  ELSE IF Head(by_year).year = y
  THEN <<[year |-> y, records |-> <<rec>>]>> \o Tail(by_year)
  ELSE <<Head(by_year)>> \o AddByYearReplace(Tail(by_year), y, rec)

RECURSIVE AddByYear(_, _, _)
AddByYear(by_year, y, rec) ==
  IF by_year = <<>> THEN <<[year |-> y, records |-> <<rec>>]>>
  ELSE IF Head(by_year).year = y
  THEN <<[year |-> y, records |-> Append(Head(by_year).records, rec)]>>
       \o Tail(by_year)
  ELSE <<Head(by_year)>> \o AddByYear(Tail(by_year), y, rec)

RECURSIVE ByYearFrom(_, _)
ByYearFrom(old_data, by_year) ==
  IF old_data = <<>> THEN by_year
  ELSE LET y == FirstYearIn(Head(old_data).Period, OLD_YEARS)
       IN  ByYearFrom(Tail(old_data),
                      IF y = 0 THEN by_year ELSE AddByYear(by_year, y, Head(old_data)))

ByYear(old_data) == ByYearFrom(old_data, <<>>)

----------------------------------------------------------------------------
\* Process state.

NoKey == [prefix |-> "", h |-> ""]

ix0 == [pref |-> 1, year |-> 1, muni |-> 1, q |-> 1, region |-> 1, tile |-> 1,
        mig |-> 1]
acc0 == [all_data |-> <<>>, all_records |-> <<>>, year_records |-> <<>>,
         records |-> <<>>, by_year |-> <<>>]
wr0 == [key |-> NoKey, data |-> <<>>, next |-> "", task |-> ""]

NotReturned == [set |-> FALSE, data |-> <<>>]
Returned(data) == [set |-> TRUE, data |-> data]
ret0 == [muni |-> NotReturned, tx |-> NotReturned, op |-> NotReturned]

Running == {"muni", "muni_call", "muni_ret", "tx", "tx_pref", "tx_migrate",
            "mig_item", "tx_year", "tx_call", "tx_leaf_done", "tx_ret",
            "op", "op_year", "op_region", "op_tile", "op_leaf_done",
            "op_year_done", "op_ret", "write_open", "write_dump"}

Stopped == {"idle", "killed", "aborted", "done"}

\* An exception no handler catches: the process exits.
Abort(kind) ==
  /\ pc' = "aborted"
  /\ err' = kind
  /\ ix' = ix0 /\ acc' = acc0 /\ wr' = wr0

\* self._write_cache(key, data) is entered; control returns at `next`.
CallWrite(key, data, next, task) ==
  /\ pc' = "write_open"
  /\ wr' = [key |-> key, data |-> data, next |-> next, task |-> task]

\* The leaf a call belongs to, for the call history.
Called(rq, leaf) == calls' = Append(calls, [req |-> rq, leaf |-> leaf])

----------------------------------------------------------------------------
\* _write_cache

\* open(path, "w"): the file is created or emptied.
WriteOpen ==
  /\ pc = "write_open"
  /\ cache' = OpenedFile(cache, wr.key)
  /\ wlog' = Append(wlog, wr.key)
  /\ runWrites' = Append(runWrites, wr.task)
  /\ prov' = (wr.key :> config) @@ prov
  /\ pc' = "write_dump"
  /\ UNCHANGED <<config, failing, keyTest, bnd, proc, tiling, removed, workers, fetched, run, ix, acc, wr, ret, prev, calls, startKeys, err>>

\* json.dump and the close of the with block.
WriteDump ==
  /\ pc = "write_dump"
  /\ cache' = DumpedFile(cache, wr.key, wr.data)
  /\ pc' = wr.next
  /\ wr' = wr0
  /\ UNCHANGED <<config, failing, keyTest, bnd, proc, tiling, removed, workers, fetched, run, ix, acc, ret, prev, calls, wlog,
                 runWrites, startKeys, prov, err>>

----------------------------------------------------------------------------
\* fetch_municipalities

FetchMunicipalities ==
  /\ pc = "muni"
  /\ LET cached == ReadCache(MuniKey)
     IN  IF ~cached.ok
         THEN Abort("cache") /\ UNCHANGED <<ret, calls>>
         ELSE IF cached.present
         THEN /\ ret' = [ret EXCEPT !.muni = Returned(cached.data)]
              /\ pc' = "tx"
              /\ UNCHANGED <<ix, acc, wr, calls, err>>
         ELSE /\ ix' = ix0 /\ acc' = acc0
              /\ IF PREF_CODES = <<>>
                 THEN CallWrite(MuniKey, <<>>, "muni_ret", "muni")
                 ELSE pc' = "muni_call" /\ wr' = wr
              /\ UNCHANGED <<ret, calls, err>>
  /\ UNCHANGED <<config, cache, failing, keyTest, bnd, proc, tiling, removed, workers, fetched, run, prev, wlog, runWrites, startKeys, prov>>

\* One pass of the loop over PREF_CODES: the call is outside any try block.
MuniCall ==
  /\ pc = "muni_call"
  /\ LET pref_code == PREF_CODES[ix.pref]
         rq == ReqCatalog(pref_code)
         all_data == acc.all_data \o CatalogData(pref_code)
     IN  /\ Called(rq, MuniKey)
         /\ IF MuniGet(rq) = "raise"
            THEN Abort("call")
            ELSE /\ acc' = [acc EXCEPT !.all_data = all_data]
                 /\ err' = err
                 /\ IF ix.pref < Len(PREF_CODES)
                    THEN /\ ix' = [ix EXCEPT !.pref = @ + 1]
                         /\ pc' = pc /\ wr' = wr
                    ELSE /\ ix' = ix
                         /\ CallWrite(MuniKey, all_data, "muni_ret", "muni")
  /\ UNCHANGED <<config, cache, failing, keyTest, bnd, proc, tiling, removed, workers, fetched, run, ret, prev, wlog, runWrites, startKeys, prov>>

MuniReturn ==
  /\ pc = "muni_ret"
  /\ ret' = [ret EXCEPT !.muni = Returned(acc.all_data)]
  /\ pc' = "tx"
  /\ UNCHANGED <<config, cache, failing, keyTest, bnd, proc, tiling, removed, workers, fetched, run, ix, acc, wr, prev, calls, wlog,
                 runWrites, startKeys, prov, err>>

----------------------------------------------------------------------------
\* fetch_all_transactions(municipalities)

Municipalities == ret.muni.data

CurPref == PREF_CODES[ix.pref]
CurMunis == PrefMunis(Municipalities, CurPref)

FetchAllTransactions ==
  /\ pc = "tx"
  /\ LET cached == ReadCache(TxAllKey)
     IN  IF ~cached.ok
         THEN Abort("cache") /\ UNCHANGED ret
         ELSE IF cached.present
         THEN /\ ret' = [ret EXCEPT !.tx = Returned(cached.data)]
              /\ pc' = "op"
              /\ UNCHANGED <<ix, acc, wr, err>>
         ELSE /\ ix' = ix0 /\ acc' = acc0
              /\ pc' = "tx_pref"
              /\ UNCHANGED <<ret, wr, err>>
  /\ UNCHANGED <<config, cache, failing, keyTest, bnd, proc, tiling, removed, workers, fetched, run, prev, calls, wlog, runWrites, startKeys, prov>>

\* Head of the loop over PREF_CODES; after the loop, the top-level write.
TxPref ==
  /\ pc = "tx_pref"
  /\ IF ix.pref > Len(PREF_CODES)
     THEN /\ CallWrite(TxAllKey, acc.all_records, "tx_ret", "tx")
          /\ ix' = ix
     ELSE IF CurMunis = <<>>
     THEN /\ ix' = [ix EXCEPT !.pref = @ + 1]
          /\ pc' = pc /\ wr' = wr
     ELSE /\ pc' = "tx_migrate"
          /\ ix' = ix /\ wr' = wr
  /\ UNCHANGED <<config, cache, failing, keyTest, bnd, proc, tiling, removed, workers, fetched, run, acc, ret, prev, calls, wlog,
                 runWrites, startKeys, prov, err>>

\* _migrate_old_pref_cache: the read of the old chunk and the split by year.
MigrateOldPrefCache ==
  /\ pc = "tx_migrate"
  /\ LET old_data == ReadCache(OldKey(CurPref))
     IN  IF ~old_data.ok
         THEN Abort("cache")
         ELSE IF ~old_data.present
         THEN /\ pc' = "tx_year"
              /\ ix' = [ix EXCEPT !.year = 1]
              /\ UNCHANGED <<acc, wr, err>>
         ELSE /\ pc' = "mig_item"
              /\ ix' = [ix EXCEPT !.mig = 1]
              /\ acc' = [acc EXCEPT !.by_year = ByYear(old_data.data)]
              /\ UNCHANGED <<wr, err>>
  /\ UNCHANGED <<config, cache, failing, keyTest, bnd, proc, tiling, removed, workers, fetched, run, ret, prev, calls, wlog,
                 runWrites, startKeys, prov>>

\* Mutant of MigrateItem: the chunk of the year is written without the test
\* that it is absent.
MigrateItemOverwrite ==
  /\ pc = "mig_item"
  /\ IF ix.mig > Len(acc.by_year)
     THEN /\ pc' = "tx_year"
          /\ ix' = [ix EXCEPT !.year = 1]
          /\ acc' = [acc EXCEPT !.by_year = <<>>]
          /\ UNCHANGED <<wr, err>>
     ELSE LET item == acc.by_year[ix.mig]
              year_key == TxYearKey(PREF_CODES[ix.pref], item.year)
          IN  /\ ix' = [ix EXCEPT !.mig = @ + 1]
              /\ CallWrite(year_key, item.records, "mig_item", "tx")
              /\ UNCHANGED <<acc, err>>
  /\ UNCHANGED <<config, cache, failing, keyTest, bnd, proc, tiling, removed, workers, fetched, run, ret, prev, calls, wlog,
                 runWrites, startKeys, prov>>

\* Mutant of MigrateItem: a chunk of the year that exists is extended with the
\* records of the old chunk.
MigrateItemAppend ==
  /\ pc = "mig_item"
  /\ IF ix.mig > Len(acc.by_year)
     THEN /\ pc' = "tx_year"
          /\ ix' = [ix EXCEPT !.year = 1]
          /\ acc' = [acc EXCEPT !.by_year = <<>>]
          /\ UNCHANGED <<wr, err>>
     ELSE LET item == acc.by_year[ix.mig]
              year_key == TxYearKey(CurPref, item.year)
              present == ReadCache(year_key)
          IN  IF ~present.ok
              THEN Abort("cache")
              ELSE /\ ix' = [ix EXCEPT !.mig = @ + 1]
                   /\ CallWrite(year_key,
                                IF present.present
                                THEN present.data \o item.records
                                ELSE item.records,
                                "mig_item", "tx")
                   /\ UNCHANGED <<acc, err>>
  /\ UNCHANGED <<config, cache, failing, keyTest, bnd, proc, tiling, removed, workers, fetched, run, ret, prev, calls, wlog,
                 runWrites, startKeys, prov>>

\* _migrate_old_pref_cache: one pass of the loop over by_year.items().
MigrateItem ==
  /\ pc = "mig_item"
  /\ IF ix.mig > Len(acc.by_year)
     THEN /\ pc' = "tx_year"
          /\ ix' = [ix EXCEPT !.year = 1]
          /\ acc' = [acc EXCEPT !.by_year = <<>>]
          /\ UNCHANGED <<wr, err>>
     ELSE LET item == acc.by_year[ix.mig]
              year_key == TxYearKey(CurPref, item.year)
              present == ReadCache(year_key)
          IN  IF ~present.ok
              THEN Abort("cache")
              ELSE /\ ix' = [ix EXCEPT !.mig = @ + 1]
                   /\ IF present.present
                      THEN pc' = pc /\ wr' = wr
                      ELSE CallWrite(year_key, item.records, "mig_item", "tx")
                   /\ UNCHANGED <<acc, err>>
  /\ UNCHANGED <<config, cache, failing, keyTest, bnd, proc, tiling, removed, workers, fetched, run, ret, prev, calls, wlog,
                 runWrites, startKeys, prov>>

\* Head of the loop over TRANSACTION_YEARS: the read of the leaf chunk.
TxYear ==
  /\ pc = "tx_year"
  /\ IF ix.year > Len(TRANSACTION_YEARS)
     THEN /\ ix' = [ix EXCEPT !.pref = @ + 1]
          /\ pc' = "tx_pref"
          /\ UNCHANGED <<acc, wr, err>>
     ELSE LET year == TRANSACTION_YEARS[ix.year]
              year_cache_key == TxYearKey(CurPref, year)
              year_cached == ReadCache(year_cache_key)
          IN  IF ~year_cached.ok
              THEN Abort("cache")
              ELSE IF year_cached.present
              THEN /\ acc' = [acc EXCEPT !.all_records = @ \o year_cached.data]
                   /\ ix' = [ix EXCEPT !.year = @ + 1]
                   /\ UNCHANGED <<pc, wr, err>>
              ELSE /\ acc' = [acc EXCEPT !.year_records = <<>>]
                   /\ ix' = [ix EXCEPT !.muni = 1, !.q = 1]
                   /\ IF TRANSACTION_QUARTERS = <<>>
                      THEN CallWrite(year_cache_key, <<>>, "tx_leaf_done", "tx")
                      ELSE pc' = "tx_call" /\ wr' = wr
                   /\ err' = err
  /\ UNCHANGED <<config, cache, failing, keyTest, bnd, proc, tiling, removed, workers, fetched, run, ret, prev, calls, wlog,
                 runWrites, startKeys, prov>>

\* One pass of the quarter loop: the call and the stamping, inside try/except.
TxCall ==
  /\ pc = "tx_call"
  /\ LET year == TRANSACTION_YEARS[ix.year]
         muni == CurMunis[ix.muni]
         quarter == TRANSACTION_QUARTERS[ix.q]
         year_cache_key == TxYearKey(CurPref, year)
         rq == ReqTx(muni.id, year, quarter)
         out == TxTry(rq)
         year_records ==
           IF out = "ok"
           THEN acc.year_records \o TxCallRecords(muni, year, quarter)
           ELSE acc.year_records
     IN  /\ Called(rq, year_cache_key)
         /\ IF out = "raise"
            THEN Abort("call")
            ELSE /\ acc' = [acc EXCEPT !.year_records = year_records]
                 /\ err' = err
                 /\ IF ix.q < Len(TRANSACTION_QUARTERS)
                    THEN /\ ix' = [ix EXCEPT !.q = @ + 1]
                         /\ pc' = pc /\ wr' = wr
                    ELSE IF ix.muni < Len(CurMunis)
                    THEN /\ ix' = [ix EXCEPT !.muni = @ + 1, !.q = 1]
                         /\ pc' = pc /\ wr' = wr
                    ELSE /\ ix' = ix
                         /\ CallWrite(year_cache_key, year_records,
                                      "tx_leaf_done", "tx")
  /\ UNCHANGED <<config, cache, failing, keyTest, bnd, proc, tiling, removed, workers, fetched, run, ret, prev, wlog, runWrites,
                 startKeys, prov>>

\* Mutant of TxLeafDone: the fetched leaf is written but not added to
\* all_records.
TxLeafDoneNoExtend ==
  /\ pc = "tx_leaf_done"
  /\ acc' = [acc EXCEPT !.year_records = <<>>]
  /\ ix' = [ix EXCEPT !.year = @ + 1]
  /\ pc' = "tx_year"
  /\ UNCHANGED <<config, cache, failing, keyTest, bnd, proc, tiling, removed, workers, fetched, run, wr, ret, prev, calls, wlog,
                 runWrites, startKeys, prov, err>>

\* all_records.extend(year_records) after the leaf write.
TxLeafDone ==
  /\ pc = "tx_leaf_done"
  /\ acc' = [acc EXCEPT !.all_records = @ \o acc.year_records,
                        !.year_records = <<>>]
  /\ ix' = [ix EXCEPT !.year = @ + 1]
  /\ pc' = "tx_year"
  /\ UNCHANGED <<config, cache, failing, keyTest, bnd, proc, tiling, removed, workers, fetched, run, wr, ret, prev, calls, wlog,
                 runWrites, startKeys, prov, err>>

TxReturn ==
  /\ pc = "tx_ret"
  /\ ret' = [ret EXCEPT !.tx = Returned(acc.all_records)]
  /\ pc' = "op"
  /\ UNCHANGED <<config, cache, failing, keyTest, bnd, proc, tiling, removed, workers, fetched, run, ix, acc, wr, prev, calls, wlog,
                 runWrites, startKeys, prov, err>>

----------------------------------------------------------------------------
\* fetch_official_prices and _scan_tiles_for_region

CurOpYear == OFFICIAL_PRICE_YEARS[ix.year]
CurRegion == REGION_BBOXES[ix.region]

FetchOfficialPrices ==
  /\ pc = "op"
  /\ LET cached == ReadCache(OpAllKey)
     IN  IF ~cached.ok
         THEN Abort("cache") /\ UNCHANGED ret
         ELSE IF cached.present
         THEN /\ ret' = [ret EXCEPT !.op = Returned(cached.data)]
              /\ pc' = "done"
              /\ UNCHANGED <<ix, acc, wr, err>>
         ELSE /\ ix' = ix0 /\ acc' = acc0
              /\ pc' = "op_year"
              /\ UNCHANGED <<ret, wr, err>>
  /\ UNCHANGED <<config, cache, failing, keyTest, bnd, proc, tiling, removed, workers, fetched, run, prev, calls, wlog, runWrites, startKeys, prov>>

\* Head of the loop over OFFICIAL_PRICE_YEARS; after the loop, the top-level
\* write.
OpYear ==
  /\ pc = "op_year"
  /\ IF ix.year > Len(OFFICIAL_PRICE_YEARS)
     THEN /\ CallWrite(OpAllKey, acc.all_records, "op_ret", "op")
          /\ UNCHANGED <<ix, acc, err>>
     ELSE LET year_cached == ReadCache(OpYearKey(CurOpYear))
          IN  IF ~year_cached.ok
              THEN Abort("cache")
              ELSE IF year_cached.present
              THEN /\ acc' = [acc EXCEPT !.all_records = @ \o year_cached.data]
                   /\ ix' = [ix EXCEPT !.year = @ + 1]
                   /\ UNCHANGED <<pc, wr, err>>
              ELSE /\ acc' = [acc EXCEPT !.year_records = <<>>]
                   /\ ix' = [ix EXCEPT !.region = 1]
                   /\ pc' = "op_region"
                   /\ UNCHANGED <<wr, err>>
  /\ UNCHANGED <<config, cache, failing, keyTest, bnd, proc, tiling, removed, workers, fetched, run, ret, prev, calls, wlog,
                 runWrites, startKeys, prov>>

\* Mutant of OpRegion: the loop over the regions falls back to the head of
\* the loop over the years.
OpRegionBounce ==
  /\ pc = "op_region"
  /\ pc' = "op_year"
  /\ UNCHANGED <<config, cache, failing, keyTest, bnd, proc, tiling, removed, workers, fetched, run, ix, acc, wr, ret, prev,
                 calls, wlog, runWrites, startKeys, prov, err>>

\* Head of the loop over REGION_BBOXES; after the loop, the dedup pass and the
\* write of the per-year chunk.
OpRegion ==
  /\ pc = "op_region"
  /\ IF ix.region > Len(REGION_BBOXES)
     THEN LET deduped == Dedup(acc.year_records)
          IN  /\ acc' = [acc EXCEPT !.year_records = deduped]
              /\ CallWrite(OpYearKey(CurOpYear), deduped, "op_year_done", "op")
              /\ UNCHANGED <<ix, err>>
     ELSE LET region_cache_key == OpRegionKey(CurOpYear, CurRegion)
              region_cached == ReadCache(region_cache_key)
          IN  IF ~region_cached.ok
              THEN Abort("cache")
              ELSE IF region_cached.present
              THEN /\ acc' = [acc EXCEPT !.year_records = @ \o region_cached.data]
                   /\ ix' = [ix EXCEPT !.region = @ + 1]
                   /\ UNCHANGED <<pc, wr, err>>
              ELSE /\ acc' = [acc EXCEPT !.records = <<>>]
                   /\ ix' = [ix EXCEPT !.tile = 1]
                   /\ IF RegionTiles(CurRegion) = <<>>
                      THEN CallWrite(region_cache_key, <<>>, "op_leaf_done", "op")
                      ELSE pc' = "op_tile" /\ wr' = wr
                   /\ err' = err
  /\ UNCHANGED <<config, cache, failing, keyTest, bnd, proc, tiling, removed, workers, fetched, run, ret, prev, calls, wlog,
                 runWrites, startKeys, prov>>

\* _scan_tiles_for_region: one pass of the loop over the tiles, the call and
\* the stamping inside try/except; after the last tile, the leaf write.
ScanTile ==
  /\ pc = "op_tile"
  /\ LET tiles == RegionTiles(CurRegion)
         tile == tiles[ix.tile]
         region_cache_key == OpRegionKey(CurOpYear, CurRegion)
         rq == ReqTile(CurOpYear, TILE_ZOOM, tile[1], tile[2])
         out == TileTry(rq)
         records ==
           IF out \in {"ok", "partial"}
           THEN acc.records \o TileCallRecords(tile, CurOpYear)
           ELSE acc.records
     IN  /\ Called(rq, region_cache_key)
         /\ IF out = "raise"
            THEN Abort("call")
            ELSE /\ acc' = [acc EXCEPT !.records = records]
                 /\ err' = err
                 /\ IF ix.tile < Len(tiles)
                    THEN /\ ix' = [ix EXCEPT !.tile = @ + 1]
                         /\ pc' = pc /\ wr' = wr
                    ELSE /\ ix' = ix
                         /\ CallWrite(region_cache_key, records,
                                      "op_leaf_done", "op")
  /\ UNCHANGED <<config, cache, failing, keyTest, bnd, proc, tiling, removed, workers, fetched, run, ret, prev, wlog, runWrites,
                 startKeys, prov>>

\* year_records.extend(region_records) after the leaf write.
OpLeafDone ==
  /\ pc = "op_leaf_done"
  /\ acc' = [acc EXCEPT !.year_records = @ \o acc.records, !.records = <<>>]
  /\ ix' = [ix EXCEPT !.region = @ + 1]
  /\ pc' = "op_region"
  /\ UNCHANGED <<config, cache, failing, keyTest, bnd, proc, tiling, removed, workers, fetched, run, wr, ret, prev, calls, wlog,
                 runWrites, startKeys, prov, err>>

\* Mutant of OpYearDone: after the first per-year chunk the loop over the
\* years is left, and the top-level chunk is written from that year alone.
OpYearDoneLeave ==
  /\ pc = "op_year_done"
  /\ acc' = [acc EXCEPT !.all_records = @ \o acc.year_records,
                        !.year_records = <<>>]
  /\ ix' = [ix EXCEPT !.year = Len(OFFICIAL_PRICE_YEARS) + 1]
  /\ pc' = "op_year"
  /\ UNCHANGED <<config, cache, failing, keyTest, bnd, proc, tiling, removed, workers, fetched, run, wr, ret, prev, calls, wlog,
                 runWrites, startKeys, prov, err>>

\* all_records.extend(deduped) after the write of the per-year chunk.
OpYearDone ==
  /\ pc = "op_year_done"
  /\ acc' = [acc EXCEPT !.all_records = @ \o acc.year_records,
                        !.year_records = <<>>]
  /\ ix' = [ix EXCEPT !.year = @ + 1]
  /\ pc' = "op_year"
  /\ UNCHANGED <<config, cache, failing, keyTest, bnd, proc, tiling, removed, workers, fetched, run, wr, ret, prev, calls, wlog,
                 runWrites, startKeys, prov, err>>

OpReturn ==
  /\ pc = "op_ret"
  /\ ret' = [ret EXCEPT !.op = Returned(acc.all_records)]
  /\ pc' = "done"
  /\ UNCHANGED <<config, cache, failing, keyTest, bnd, proc, tiling, removed, workers, fetched, run, ix, acc, wr, prev, calls, wlog,
                 runWrites, startKeys, prov, err>>

----------------------------------------------------------------------------
\* The process: main() starts the three tasks in order; it may be killed at
\* any point, and started again.

ReadableKeys == {k \in DOMAIN cache : cache[k].complete}

ProcessStart ==
  /\ pc \in Stopped
  /\ run < MaxRuns
  /\ run' = run + 1
  /\ pc' = "muni"
  /\ ix' = ix0 /\ acc' = acc0 /\ wr' = wr0
  /\ prev' = [t \in DOMAIN ret |-> IF ret[t].set THEN ret[t] ELSE prev[t]]
  /\ ret' = ret0
  /\ calls' = <<>>
  /\ runWrites' = <<>>
  /\ startKeys' = ReadableKeys
  /\ err' = "none"
  /\ UNCHANGED <<config, cache, failing, keyTest, bnd, proc, tiling, removed, workers, wlog, prov>>

StartRun == ProcessStart /\ UNCHANGED fetched

\* The prefectures whose catalog request the run so far was answered.
AnsweredCatalogs ==
  {calls[i].req.code : i \in {j \in DOMAIN calls :
       calls[j].req.ep = "XIT002" /\ MuniGet(calls[j].req) = "ok"}}

\* The start of a process, with the answered catalog requests of the run that
\* ended kept in the history.
StartRunLogged == ProcessStart /\ fetched' = fetched \cup AnsweredCatalogs

Interrupt ==
  /\ pc \in Running
  /\ pc' = "killed"
  /\ ix' = ix0 /\ acc' = acc0 /\ wr' = wr0
  /\ UNCHANGED <<config, cache, failing, keyTest, bnd, proc, tiling, removed, workers, fetched, run, ret, prev, calls, wlog,
                 runWrites, startKeys, prov, err>>

----------------------------------------------------------------------------
\* Initial states: an empty cache directory, or one that holds a chunk of the
\* former scheme (prefecture 01, all years in one chunk); any set of at most
\* MaxFailures failing requests among FlakyRequests.

OldRecord(year) ==
  [Period |-> Period(year, 1), MunicipalityCode |-> <<"0", "1", "1", "0", "0">>,
   TradePrice |-> 7, _city_code |-> <<"0", "1", "1", "0", "0">>,
   _city_name |-> "Sapporo"]

OldChunk == [i \in DOMAIN OLD_YEARS |-> OldRecord(OLD_YEARS[i])]

EmptyCache == [k \in {} |-> Truncated]

EmptyProv == [k \in {} |-> BaseConfig]

InitialCaches == {EmptyCache, DumpedFile(EmptyCache, OldKey(P01), OldChunk)}

\* main() has not reached fetch_municipality_boundaries.
NoBnd ==
  [pc |-> "idle", runs |-> 0, src |-> <<>>, local |-> [exists |-> FALSE, features |-> <<>>],
   i |-> 1, all_features |-> <<>>, boundaries |-> <<>>,
   processed |-> FALSE, built |-> FALSE]

\* No DataProcessor has been constructed.
NoProc == [stage |-> "none"]

\* get_tiles_for_bbox has not been called on its own.
NoTiling == [stage |-> "none"]

\* No further acquisition process runs beside the one of pc.
NoWorkers == <<>>

\* The operator has deleted nothing.
NoRemoval == [n |-> 0, run |-> -1, keys |-> {}]

NoKeyTest == [p1 |-> <<>>, p2 |-> <<>>, k1 |-> NoKey, k2 |-> NoKey, done |-> FALSE]

\* The requests that may fail: one catalog call, three transaction calls and
\* two tile calls (a tile both regions scan, and the last tile of a scan).
FlakyRequests ==
  {ReqCatalog(P02),
   ReqTx(<<"0", "1", "1", "0", "0">>, 2024, 1),
   ReqTx(<<"0", "1", "2", "0", "2">>, 2025, 1),
   ReqTx(<<"0", "2", "2", "0", "1">>, 2024, 2),
   ReqTile(2024, 13, 7266, 3053),
   ReqTile(2025, 13, 7267, 3053)}

Init ==
  /\ config = BaseConfig
  /\ cache \in InitialCaches
  /\ failing \in SubsetsUpTo(FlakyRequests, MaxFailures)
  /\ pc = "idle"
  /\ run = 0
  /\ ix = ix0 /\ acc = acc0 /\ wr = wr0
  /\ ret = ret0 /\ prev = ret0
  /\ calls = <<>> /\ wlog = <<>> /\ runWrites = <<>>
  /\ startKeys = {}
  /\ prov = EmptyProv
  /\ err = "none"
  /\ keyTest = NoKeyTest
  /\ bnd = NoBnd /\ proc = NoProc /\ tiling = NoTiling /\ removed = NoRemoval /\ fetched = {} /\ workers = NoWorkers

Next ==
  \/ StartRun
  \/ Interrupt
  \/ WriteOpen
  \/ WriteDump
  \/ FetchMunicipalities
  \/ MuniCall
  \/ MuniReturn
  \/ FetchAllTransactions
  \/ TxPref
  \/ MigrateOldPrefCache
  \/ MigrateItem
  \/ TxYear
  \/ TxCall
  \/ TxLeafDone
  \/ TxReturn
  \/ FetchOfficialPrices
  \/ OpYear
  \/ OpRegion
  \/ ScanTile
  \/ OpLeafDone
  \/ OpYearDone
  \/ OpReturn

Spec == Init /\ [][Next]_vars

----------------------------------------------------------------------------
\* The operator edits config.py between two runs: other years, another zoom,
\* fewer quarters, fewer prefectures, or another rectangle for a region.

ConfigVariants ==
  {[BaseConfig EXCEPT !.TRANSACTION_YEARS = <<2025>>,
                      !.OFFICIAL_PRICE_YEARS = <<2025>>],
   [BaseConfig EXCEPT !.TILE_ZOOM = 14],
   [BaseConfig EXCEPT !.TRANSACTION_QUARTERS = <<1>>],
   [BaseConfig EXCEPT !.PREF_CODES = <<P01>>],
   [BaseConfig EXCEPT !.REGION_BBOXES =
      <<[RegionA EXCEPT !.east = 13936], RegionB>>]}

ChangeConfig ==
  /\ pc \in Stopped
  /\ run >= 1
  /\ config = BaseConfig
  /\ config' \in ConfigVariants
  /\ UNCHANGED <<cache, failing, pc, run, ix, acc, wr, ret, prev, calls, wlog,
                 runWrites, startKeys, prov, err, keyTest, bnd, proc, tiling,
                 removed, workers, fetched>>

InitCfg ==
  /\ config = BaseConfig
  /\ cache \in InitialCaches
  /\ failing = {}
  /\ pc = "idle"
  /\ run = 0
  /\ ix = ix0 /\ acc = acc0 /\ wr = wr0
  /\ ret = ret0 /\ prev = ret0
  /\ calls = <<>> /\ wlog = <<>> /\ runWrites = <<>>
  /\ startKeys = {}
  /\ prov = EmptyProv
  /\ err = "none"
  /\ keyTest = NoKeyTest
  /\ bnd = NoBnd /\ proc = NoProc /\ tiling = NoTiling /\ removed = NoRemoval /\ fetched = {} /\ workers = NoWorkers

NextCfg == Next \/ ChangeConfig

SpecCfg == InitCfg /\ [][NextCfg]_vars

----------------------------------------------------------------------------
\* _cache_key applied to two parameter mappings with the same names.

KeyTestNames == {"pref", "year", "zoom"}

\* The values a parameter may take; the last two are one dict written in two
\* insertion orders (equal as Python values, hence the same id).
KeyTestValues ==
  <<[id |-> 1, j |-> JInt(1)],
    [id |-> 2, j |-> JStr("1")],
    [id |-> 3, j |-> JDict(<<<<"north", JFloat(4160)>>, <<"east", JInt(1)>>>>)],
    [id |-> 3, j |-> JDict(<<<<"east", JInt(1)>>, <<"north", JFloat(4160)>>>>)]>>

\* The orderings of a set of names.
RECURSIVE Orderings(_)
Orderings(S) ==
  IF S = {} THEN {<<>>}
  ELSE UNION {{<<x>> \o o : o \in Orderings(S \ {x})} : x \in S}

\* The mappings over a set of names: <<name, index into KeyTestValues>>, in
\* insertion order.
MappingsOver(S) ==
  UNION {{[i \in DOMAIN o |-> <<o[i], f[i]>>] :
            f \in [DOMAIN o -> DOMAIN KeyTestValues]} : o \in Orderings(S)}

ToParams(m) == [i \in DOMAIN m |-> <<m[i][1], KeyTestValues[m[i][2]].j>>]

InitKey ==
  /\ config = BaseConfig
  /\ cache = EmptyCache
  /\ failing = {}
  /\ pc = "idle"
  /\ run = 0
  /\ ix = ix0 /\ acc = acc0 /\ wr = wr0
  /\ ret = ret0 /\ prev = ret0
  /\ calls = <<>> /\ wlog = <<>> /\ runWrites = <<>>
  /\ startKeys = {}
  /\ prov = EmptyProv
  /\ err = "none"
  /\ \E S \in (SUBSET KeyTestNames) \ {{}} :
       \E m1 \in MappingsOver(S), m2 \in MappingsOver(S) :
         keyTest = [p1 |-> m1, p2 |-> m2, k1 |-> NoKey, k2 |-> NoKey,
                    done |-> FALSE]
  /\ bnd = NoBnd /\ proc = NoProc /\ tiling = NoTiling /\ removed = NoRemoval /\ fetched = {} /\ workers = NoWorkers

ComputeKeys ==
  /\ ~keyTest.done
  /\ keyTest' = [keyTest EXCEPT !.k1 = CacheKey("op", ToParams(keyTest.p1)),
                                !.k2 = CacheKey("op", ToParams(keyTest.p2)),
                                !.done = TRUE]
  /\ UNCHANGED <<config, cache, failing, pc, run, ix, acc, wr, ret, prev, calls,
                 wlog, runWrites, startKeys, prov, err, bnd, proc, tiling,
                 removed, workers, fetched>>

NextKey == ComputeKeys

SpecKey == InitKey /\ [][NextKey]_vars

----------------------------------------------------------------------------
\* What the tasks compute, as functions of the source and of the cache the
\* first run found (used to state the properties below).

Tasks == {"muni", "tx", "op"}

TaskEp(t) == CASE t = "muni" -> "XIT002" [] t = "tx" -> "XIT001" [] t = "op" -> "XPT002"

\* The requests a task issued in this run, in order.
CallsOf(t) ==
  LET cs == SelectSeq(calls, LAMBDA c : c.req.ep = TaskEp(t))
  IN  [i \in DOMAIN cs |-> cs[i].req]

\* The requests issued in this run for one leaf, in order.
LeafCalls(leaf) ==
  LET cs == SelectSeq(calls, LAMBDA c : c.leaf = leaf)
  IN  [i \in DOMAIN cs |-> cs[i].req]

FullCatalog == Flatten([i \in DOMAIN PREF_CODES |-> CatalogData(PREF_CODES[i])])

\* The requests of the leaf (prefecture, year), in loop order.
TxLeafRequests(pref, year) ==
  LET munis == PrefMunis(FullCatalog, pref)
  IN  Flatten([m \in DOMAIN munis |->
        [q \in DOMAIN TRANSACTION_QUARTERS |->
           ReqTx(munis[m].id, year, TRANSACTION_QUARTERS[q])]])

\* The stamped records of the requests of the leaf that do not fail.
TxLeafFetched(pref, year) ==
  LET munis == PrefMunis(FullCatalog, pref)
  IN  Flatten([m \in DOMAIN munis |->
        Flatten([q \in DOMAIN TRANSACTION_QUARTERS |->
           IF ReqTx(munis[m].id, year, TRANSACTION_QUARTERS[q]) \in failing
           THEN <<>>
           ELSE TxCallRecords(munis[m], year, TRANSACTION_QUARTERS[q])])])

\* The records the old-scheme chunk of a prefecture holds for a year.
OldPresent(pref) == OldKey(pref) \in DOMAIN cache

OldYearRecords(pref, year) ==
  SelectSeq(cache[OldKey(pref)].data,
            LAMBDA r : FirstYearIn(r.Period, OLD_YEARS) = year)

Migrated(pref, year) == OldPresent(pref) /\ OldYearRecords(pref, year) # <<>>

\* The leaf (prefecture, year) of a run nobody interrupts.
TxLeafExpected(pref, year) ==
  IF Migrated(pref, year) THEN OldYearRecords(pref, year)
  ELSE TxLeafFetched(pref, year)

\* The leaves of the transactions task, in loop order.
TxLeaves ==
  Flatten([p \in DOMAIN PREF_CODES |->
    IF PrefMunis(FullCatalog, PREF_CODES[p]) = <<>> THEN <<>>
    ELSE [y \in DOMAIN TRANSACTION_YEARS |->
            [pref |-> PREF_CODES[p], year |-> TRANSACTION_YEARS[y]]]])

TxExpected ==
  Flatten([l \in DOMAIN TxLeaves |->
             TxLeafExpected(TxLeaves[l].pref, TxLeaves[l].year)])

\* The requests a run owes: those of the leaves it can neither read nor
\* migrate, and nothing once the top-level chunk is readable.
TxOwedCalls ==
  IF TxAllKey \in startKeys THEN <<>>
  ELSE Flatten([l \in DOMAIN TxLeaves |->
         LET lf == TxLeaves[l]
         IN  IF TxYearKey(lf.pref, lf.year) \in startKeys
                \/ Migrated(lf.pref, lf.year)
             THEN <<>>
             ELSE TxLeafRequests(lf.pref, lf.year)])

OpLeafRequests(year, region) ==
  LET tiles == RegionTiles(region)
  IN  [i \in DOMAIN tiles |-> ReqTile(year, TILE_ZOOM, tiles[i][1], tiles[i][2])]

OpLeafExpected(year, region) ==
  LET tiles == RegionTiles(region)
  IN  Flatten([i \in DOMAIN tiles |->
        IF ReqTile(year, TILE_ZOOM, tiles[i][1], tiles[i][2]) \in failing
        THEN <<>>
        ELSE TileCallRecords(tiles[i], year)])

OpYearConcat(year) ==
  Flatten([r \in DOMAIN REGION_BBOXES |-> OpLeafExpected(year, REGION_BBOXES[r])])

OpExpected ==
  Flatten([y \in DOMAIN OFFICIAL_PRICE_YEARS |->
             Dedup(OpYearConcat(OFFICIAL_PRICE_YEARS[y]))])

OpOwedCalls ==
  IF OpAllKey \in startKeys THEN <<>>
  ELSE Flatten([y \in DOMAIN OFFICIAL_PRICE_YEARS |->
         IF OpYearKey(OFFICIAL_PRICE_YEARS[y]) \in startKeys THEN <<>>
         ELSE Flatten([r \in DOMAIN REGION_BBOXES |->
                IF OpRegionKey(OFFICIAL_PRICE_YEARS[y], REGION_BBOXES[r])
                     \in startKeys
                THEN <<>>
                ELSE OpLeafRequests(OFFICIAL_PRICE_YEARS[y], REGION_BBOXES[r])])])

TxLeafKeys == {TxYearKey(TxLeaves[l].pref, TxLeaves[l].year) : l \in DOMAIN TxLeaves}

OpLeafKeys ==
  {OpRegionKey(OFFICIAL_PRICE_YEARS[y], REGION_BBOXES[r]) :
     y \in DOMAIN OFFICIAL_PRICE_YEARS, r \in DOMAIN REGION_BBOXES}

----------------------------------------------------------------------------
\* C1 (idempotence): when a task returned in an earlier run, a later run of
\* that task issues no external call, enters no _write_cache and returns a
\* payload equal to the one returned before.
C1_Idempotence ==
  \A t \in Tasks :
    (ret[t].set /\ prev[t].set) =>
      /\ CallsOf(t) = <<>>
      /\ t \notin Range(runWrites)
      /\ ret[t].data = prev[t].data

\* A second complete run over the cache of a first complete run, with data.
C1_Witness ==
  /\ pc = "done" /\ run >= 2
  /\ \A t \in Tasks : ret[t].set /\ prev[t].set /\ ret[t].data # <<>>
  /\ calls = <<>> /\ runWrites = <<>>

\* C2 (resume-safety): a run of the transactions or of the appraisals task
\* that returns has issued exactly the requests of the leaves that were not
\* readable when it started (none for a leaf whose chunk existed), and
\* returns what a run nobody interrupts returns.
C2_ResumeSafety ==
  /\ ret.tx.set => /\ CallsOf("tx") = TxOwedCalls
                   /\ ret.tx.data = TxExpected
  /\ ret.op.set => /\ CallsOf("op") = OpOwedCalls
                   /\ ret.op.data = OpExpected

\* A run that found some, not all, of the transaction leaves written by an
\* interrupted run, fetched the rest and went on to finish the appraisals.
C2_Witness ==
  /\ pc = "done" /\ run >= 2
  /\ TxAllKey \notin startKeys
  /\ \E k \in TxLeafKeys : k \in startKeys /\ k \in Range(wlog)
  /\ \E k \in TxLeafKeys : k \notin startKeys
  /\ CallsOf("tx") # <<>> /\ Len(CallsOf("tx")) < Len(Flatten(
       [l \in DOMAIN TxLeaves |-> TxLeafRequests(TxLeaves[l].pref, TxLeaves[l].year)]))
  /\ ret.tx.set /\ ret.op.set

\* C3 (atomic put): whenever the process is stopped, every key of the cache
\* resolves to a complete payload, and no run ends on a cache file that
\* cannot be read back.
C3_AtomicPut ==
  /\ pc \in Stopped => \A k \in DOMAIN cache : cache[k].complete
  /\ err # "cache"

\* C4 (write-once chunks): no key is passed to _write_cache twice; a leaf is
\* written only when every request of its fetch loop has been issued in this
\* run, with the payload of the whole loop (a migrated leaf with the records
\* of its year); and only the write in progress changes the file of its own
\* key: every other file stays as it is.
C4_WrittenOnce == \A i, j \in DOMAIN wlog : i # j => wlog[i] # wlog[j]

C4_WholeLoop ==
  pc \in {"write_open", "write_dump"} =>
    /\ \A l \in DOMAIN TxLeaves :
         LET lf == TxLeaves[l]
         IN  wr.key = TxYearKey(lf.pref, lf.year) =>
               IF wr.next = "mig_item"
               THEN wr.data = OldYearRecords(lf.pref, lf.year)
               ELSE /\ LeafCalls(wr.key) = TxLeafRequests(lf.pref, lf.year)
                    /\ wr.data = TxLeafFetched(lf.pref, lf.year)
    /\ \A y \in DOMAIN OFFICIAL_PRICE_YEARS, r \in DOMAIN REGION_BBOXES :
         LET year == OFFICIAL_PRICE_YEARS[y]
             region == REGION_BBOXES[r]
         IN  wr.key = OpRegionKey(year, region) =>
               /\ LeafCalls(wr.key) = OpLeafRequests(year, region)
               /\ wr.data = OpLeafExpected(year, region)

C4_NeverChanged ==
  \A k \in DOMAIN cache :
    (pc = "write_dump" /\ wr.key = k)
    \/ (k \in DOMAIN cache' /\ cache'[k] = cache[k])

C4_WriteOnce == [](C4_WrittenOnce /\ C4_WholeLoop) /\ [][C4_NeverChanged]_vars

\* A later run over a cache that holds a fetched leaf, a migrated leaf and a
\* file an interrupted write cut short.
C4_Witness ==
  /\ run >= 2 /\ pc \in Stopped
  /\ \E k \in DOMAIN cache : ~cache[k].complete
  /\ \E k \in TxLeafKeys : k \in ReadableKeys /\ k \in Range(wlog)
  /\ \E k \in OpLeafKeys : k \in ReadableKeys
  /\ OldPresent(P01) /\ TxYearKey(P01, 2024) \in startKeys
  /\ Len(wlog) >= 6

\* C7 (a failing external call is not fatal): no run of any of the three
\* tasks ends because an external call raised.
C7_CallFailureNonFatal == err # "call"

IsPrefix(s, t) == Len(s) <= Len(t) /\ SubSeq(t, 1, Len(s)) = s

LastCallEp == IF calls = <<>> THEN "" ELSE calls[Len(calls)].req.ep

\* The leaf was written by a fetch loop of this run.
FetchedNow(k) == k \in ReadableKeys /\ k \notin startKeys

\* C8 (a failing quarter does not abort its leaf): in the transactions task a
\* failing call never ends the run; the calls of a leaf follow the loop order
\* and, once the leaf is written, every municipality and quarter of it has
\* been requested; the chunk holds exactly the stamped records of the calls
\* that succeeded, and a run that finds the chunk issues no call for the leaf.
C8_LeafSurvivesFailure ==
  /\ err = "call" => LastCallEp # "XIT001"
  /\ \A l \in DOMAIN TxLeaves :
       LET lf == TxLeaves[l]
           k == TxYearKey(lf.pref, lf.year)
       IN  /\ IsPrefix(LeafCalls(k), TxLeafRequests(lf.pref, lf.year))
           /\ (FetchedNow(k) /\ ~Migrated(lf.pref, lf.year)) =>
                /\ LeafCalls(k) = TxLeafRequests(lf.pref, lf.year)
                /\ cache[k].data = TxLeafFetched(lf.pref, lf.year)
           /\ k \in startKeys => LeafCalls(k) = <<>>

\* A leaf written in this run whose first request failed: the later requests
\* were issued and their records are in the chunk.
C8_Witness ==
  \E l \in DOMAIN TxLeaves :
    LET lf == TxLeaves[l]
        k == TxYearKey(lf.pref, lf.year)
    IN  /\ FetchedNow(k) /\ ~Migrated(lf.pref, lf.year)
        /\ Len(LeafCalls(k)) >= 2
        /\ LeafCalls(k)[1] \in failing
        /\ cache[k].data # <<>>

\* The tiles of a scan are pairwise distinct.
DistinctTiles(region) ==
  \A i, j \in DOMAIN RegionTiles(region) :
    i # j => RegionTiles(region)[i] # RegionTiles(region)[j]

\* C9 as amended (one call per tile of a leaf scan): in the appraisals task a
\* failing tile never ends the run; the calls of a (region, year) scan are, in
\* tile order, one per tile of get_tiles_for_bbox, so the scan calls no tile
\* twice, failed or not; once the leaf is written every tile has been called
\* and the chunk holds the stamped features of the tiles that succeeded.
C9_OneCallPerTile ==
  /\ err = "call" => LastCallEp # "XPT002"
  /\ \A y \in DOMAIN OFFICIAL_PRICE_YEARS, r \in DOMAIN REGION_BBOXES :
       LET year == OFFICIAL_PRICE_YEARS[y]
           region == REGION_BBOXES[r]
           k == OpRegionKey(year, region)
       IN  /\ DistinctTiles(region)
           /\ IsPrefix(LeafCalls(k), OpLeafRequests(year, region))
           /\ FetchedNow(k) =>
                /\ LeafCalls(k) = OpLeafRequests(year, region)
                /\ cache[k].data = OpLeafExpected(year, region)

\* C9 as stated: the above, and no tile that failed is called a second time
\* in the same run.
C9_NoSecondCallInRun ==
  /\ C9_OneCallPerTile
  /\ \A i, j \in DOMAIN calls :
       (i < j /\ calls[i].req.ep = "XPT002" /\ calls[i].req \in failing)
         => calls[j].req # calls[i].req

\* A leaf written in this run whose first tile failed and whose chunk holds
\* the features of a later tile.
C9_Witness ==
  \E y \in DOMAIN OFFICIAL_PRICE_YEARS, r \in DOMAIN REGION_BBOXES :
    LET k == OpRegionKey(OFFICIAL_PRICE_YEARS[y], REGION_BBOXES[r])
    IN  /\ FetchedNow(k)
        /\ Len(LeafCalls(k)) >= 2
        /\ LeafCalls(k)[1] \in failing
        /\ cache[k].data # <<>>

NoDupKeys(recs) ==
  \A i, j \in DOMAIN recs : i # j => DedupKey(recs[i]) # DedupKey(recs[j])

Occurrences(recs, key) == Cardinality({i \in DOMAIN recs : DedupKey(recs[i]) = key})

\* C10 (deduplication): the payload fetch_official_prices returns, the
\* top-level chunk and every per-year chunk hold no two records with the same
\* (_lat, _lon, _year, u_standard_address_code); a per-year chunk holds each
\* tuple of each region leaf of its year exactly once, and nothing else.
C10_Dedup ==
  /\ ret.op.set => NoDupKeys(ret.op.data)
  /\ OpAllKey \in ReadableKeys => NoDupKeys(cache[OpAllKey].data)
  /\ \A y \in DOMAIN OFFICIAL_PRICE_YEARS :
       LET year == OFFICIAL_PRICE_YEARS[y]
           leaves == {OpRegionKey(year, REGION_BBOXES[r]) : r \in DOMAIN REGION_BBOXES}
       IN  OpYearKey(year) \in ReadableKeys =>
             LET chunk == cache[OpYearKey(year)].data
             IN  /\ NoDupKeys(chunk)
                 /\ leaves \subseteq ReadableKeys
                 /\ \A k \in leaves : \A i \in DOMAIN cache[k].data :
                      Occurrences(chunk, DedupKey(cache[k].data[i])) = 1
                 /\ \A i \in DOMAIN chunk : \E k \in leaves :
                      Occurrences(cache[k].data, DedupKey(chunk[i])) >= 1

\* A finished run in which two region leaves of a year hold the same tuple.
C10_Witness ==
  /\ pc = "done" /\ ret.op.set /\ ret.op.data # <<>>
  /\ \E y \in DOMAIN OFFICIAL_PRICE_YEARS :
       LET year == OFFICIAL_PRICE_YEARS[y]
           ka == OpRegionKey(year, REGION_BBOXES[1])
           kb == OpRegionKey(year, REGION_BBOXES[2])
       IN  /\ {ka, kb, OpYearKey(year)} \subseteq ReadableKeys
           /\ \E i \in DOMAIN cache[ka].data :
                Occurrences(cache[kb].data, DedupKey(cache[ka].data[i])) >= 1

\* C5 (the key covers the content): whenever the current configuration
\* resolves a chunk of some level to a readable key, the chunk under that key
\* was written under the same content-affecting parameters: the prefecture
\* list (catalog, top-level transactions), the year list, the quarter list,
\* the zoom level, and the regions with their rectangles.
C5_KeyCoversContent ==
  \A k \in ReadableKeys \cap DOMAIN prov :
    LET c == prov[k]
    IN  /\ k = MuniKey => c.PREF_CODES = PREF_CODES
        /\ k = TxAllKey =>
             /\ c.PREF_CODES = PREF_CODES
             /\ c.TRANSACTION_YEARS = TRANSACTION_YEARS
             /\ c.TRANSACTION_QUARTERS = TRANSACTION_QUARTERS
        /\ \A p \in DOMAIN PREF_CODES, y \in DOMAIN TRANSACTION_YEARS :
             k = TxYearKey(PREF_CODES[p], TRANSACTION_YEARS[y]) =>
               c.TRANSACTION_QUARTERS = TRANSACTION_QUARTERS
        /\ k = OpAllKey =>
             /\ c.OFFICIAL_PRICE_YEARS = OFFICIAL_PRICE_YEARS
             /\ c.TILE_ZOOM = TILE_ZOOM
             /\ c.REGION_BBOXES = REGION_BBOXES
        /\ \A y \in DOMAIN OFFICIAL_PRICE_YEARS :
             k = OpYearKey(OFFICIAL_PRICE_YEARS[y]) =>
               /\ c.TILE_ZOOM = TILE_ZOOM
               /\ c.REGION_BBOXES = REGION_BBOXES
        /\ \A y \in DOMAIN OFFICIAL_PRICE_YEARS, r \in DOMAIN REGION_BBOXES :
             k = OpRegionKey(OFFICIAL_PRICE_YEARS[y], REGION_BBOXES[r]) =>
               /\ c.TILE_ZOOM = TILE_ZOOM
               /\ REGION_BBOXES[r] \in Range(c.REGION_BBOXES)

SameMapping(m1, m2) ==
  {<<m1[i][1], KeyTestValues[m1[i][2]].id>> : i \in DOMAIN m1}
    = {<<m2[i][1], KeyTestValues[m2[i][2]].id>> : i \in DOMAIN m2}

----------------------------------------------------------------------------
\* Migration of the former cache scheme, from three cache directories a
\* former version can have left: an old chunk whose records span the three
\* years (two of them of 2022, not adjacent); an old chunk that holds nothing
\* for 2024; and the first one next to a chunk of the new scheme for 2024.

OldRecord2(year) ==
  [OldRecord(year) EXCEPT !.Period = Period(year, 2), !.TradePrice = 9]

OldChunkSpan ==
  <<OldRecord(2022), OldRecord(2023), OldRecord2(2022), OldRecord(2024)>>

OldChunkNo2024 == <<OldRecord(2022), OldRecord2(2022), OldRecord(2023)>>

MigCaches ==
  {DumpedFile(EmptyCache, OldKey(P01), OldChunkSpan),
   DumpedFile(EmptyCache, OldKey(P01), OldChunkNo2024),
   DumpedFile(DumpedFile(EmptyCache, OldKey(P01), OldChunkSpan),
              TxYearKey(P01, 2024), TxLeafFetched(P01, 2024))}

InitMig ==
  /\ config = BaseConfig
  /\ failing = {}
  /\ cache \in MigCaches
  /\ pc = "idle"
  /\ run = 0
  /\ ix = ix0 /\ acc = acc0 /\ wr = wr0
  /\ ret = ret0 /\ prev = ret0
  /\ calls = <<>> /\ wlog = <<>> /\ runWrites = <<>>
  /\ startKeys = {}
  /\ prov = EmptyProv
  /\ err = "none"
  /\ keyTest = NoKeyTest
  /\ bnd = NoBnd /\ proc = NoProc /\ tiling = NoTiling /\ removed = NoRemoval /\ fetched = {} /\ workers = NoWorkers

SpecMig == InitMig /\ [][Next]_vars

\* _migrate_old_pref_cache has just returned for a prefecture with an old chunk.
MigrationDone == pc = "tx_year" /\ ix.year = 1 /\ OldPresent(CurPref)

OldData(pref) == cache[OldKey(pref)].data

\* Every record of the old chunk is of one of the three years, and each of
\* the three years has a record.
OldSpansThree(pref) ==
  /\ \A i \in DOMAIN OldData(pref) :
       FirstYearIn(OldData(pref)[i].Period, OLD_YEARS) # 0
  /\ \A y \in DOMAIN OLD_YEARS : OldYearRecords(pref, OLD_YEARS[y]) # <<>>

\* No per-year chunk of the prefecture was there before the first migration:
\* those that exist were written since.
NoNewSchemeBefore(pref) ==
  \A y \in DOMAIN OLD_YEARS :
    TxYearKey(pref, OLD_YEARS[y]) \in DOMAIN cache
      => TxYearKey(pref, OLD_YEARS[y]) \in Range(wlog)

CountOf(seq, x) == Cardinality({i \in DOMAIN seq : seq[i] = x})

\* C11 (migration correctness): when _migrate_old_pref_cache returns for a
\* prefecture whose old chunk spans the three years and that had no per-year
\* chunk before, the three per-year chunks are readable, each holds only
\* records of its own year, and their concatenation holds every record of the
\* old chunk exactly as often as the old chunk does (once), and nothing else.
C11_MigrationCorrect ==
  (MigrationDone /\ OldSpansThree(CurPref) /\ NoNewSchemeBefore(CurPref)) =>
    LET key(i) == TxYearKey(CurPref, OLD_YEARS[i])
        chunks == [i \in DOMAIN OLD_YEARS |->
                     IF key(i) \in ReadableKeys THEN cache[key(i)].data ELSE <<>>]
        concat == Flatten(chunks)
    IN  /\ \A i \in DOMAIN OLD_YEARS : key(i) \in ReadableKeys
        /\ \A i \in DOMAIN OLD_YEARS : \A j \in DOMAIN chunks[i] :
             IsSub(Digits(OLD_YEARS[i]), chunks[i][j].Period)
        /\ Len(concat) = Len(OldData(CurPref))
        /\ \A r \in Range(OldData(CurPref)) :
             CountOf(concat, r) = CountOf(OldData(CurPref), r)

\* The migration of this run wrote the three chunks, the one of 2022 with
\* the two records the old chunk holds apart from each other.
C11_Witness ==
  /\ MigrationDone /\ OldSpansThree(CurPref) /\ NoNewSchemeBefore(CurPref)
  /\ Len(wlog) >= 4
  /\ \A y \in DOMAIN OLD_YEARS : TxYearKey(CurPref, OLD_YEARS[y]) \notin startKeys
  /\ Len(cache[TxYearKey(CurPref, 2022)].data) = 2
  /\ Len(OldData(CurPref)) = 4

\* A step of _migrate_old_pref_cache, its cache writes included.
MigStep ==
  \/ pc \in {"tx_migrate", "mig_item"}
  \/ pc \in {"write_open", "write_dump"} /\ wr.next = "mig_item"

\* Every year the old chunk has records for has a readable per-year chunk.
AllMigrated(pref) ==
  \A i \in DOMAIN ByYear(OldData(pref)) :
    TxYearKey(pref, ByYear(OldData(pref))[i].year) \in ReadableKeys

C12_NoOverwrite ==
  (pc = "write_open" /\ wr.next = "mig_item") => wr.key \notin DOMAIN cache

C12_Frame ==
  MigStep =>
    /\ calls' = calls
    /\ \A k \in ReadableKeys : k \in DOMAIN cache' /\ cache'[k] = cache[k]
    /\ (OldPresent(CurPref) /\ AllMigrated(CurPref)) => cache' = cache

\* C12 (frame of migration): _migrate_old_pref_cache writes only under keys
\* that have no file; none of its steps issues an external call or changes a
\* readable cache entry (a per-year chunk that exists, the old chunk); and
\* when every year of the old chunk already has its chunk, a migration
\* changes no cache entry at all.
C12_MigrationFrame == []C12_NoOverwrite /\ [][C12_Frame]_vars

\* A second run has gone through the whole migration of a prefecture whose
\* per-year chunks were all there when the run started, one of them from
\* before any migration.
C12_Witness ==
  /\ run >= 2
  /\ OldPresent(CurPref) /\ AllMigrated(CurPref)
  /\ pc = "mig_item" /\ ix.mig > Len(acc.by_year) /\ acc.by_year # <<>>
  /\ \A i \in DOMAIN acc.by_year :
       TxYearKey(CurPref, acc.by_year[i].year) \in startKeys
  /\ TxYearKey(CurPref, 2024) \notin Range(wlog)

\* The (prefecture, year) leaves the old chunk of a prefecture covers.
CoveredByOld(pref, year) == OldPresent(pref) /\ year \in Range(OLD_YEARS)

\* C13 (no call for a migrated year): once migration has returned for a
\* prefecture with an old chunk, each of the three years has a per-year
\* chunk, and the transactions task requests nothing for a (prefecture, year)
\* whose year the old chunk covers.
C13_NoCallForCoveredYear ==
  /\ MigrationDone =>
       \A y \in DOMAIN OLD_YEARS :
         TxYearKey(CurPref, OLD_YEARS[y]) \in DOMAIN cache
  /\ \A i \in DOMAIN calls :
       calls[i].req.ep = "XIT001" =>
         ~CoveredByOld(CityPref([id |-> calls[i].req.code]), calls[i].req.year)

\* The payload of a chunk that is readable, else nothing.
ChunkData(k) == IF k \in ReadableKeys THEN cache[k].data ELSE <<>>

\* The leaf chunks of each task as the cache holds them, merged in
\* configuration order.
TxLeavesMerged ==
  Flatten([l \in DOMAIN TxLeaves |->
             ChunkData(TxYearKey(TxLeaves[l].pref, TxLeaves[l].year))])

OpYearMerged(year) ==
  Dedup(Flatten([r \in DOMAIN REGION_BBOXES |->
                   ChunkData(OpRegionKey(year, REGION_BBOXES[r]))]))

OpLeavesMerged ==
  Flatten([y \in DOMAIN OFFICIAL_PRICE_YEARS |->
             OpYearMerged(OFFICIAL_PRICE_YEARS[y])])

\* The top-level chunk under `key`, being written or readable, holds
\* `merged`, and every leaf under `leaves` is readable from the moment its
\* write begins.
TopChunkOK(key, leaves, merged) ==
  /\ CountOf(wlog, key) <= 1
  /\ (pc \in {"write_open", "write_dump"} /\ wr.key = key) =>
       (leaves \subseteq ReadableKeys /\ wr.data = merged)
  /\ key \in DOMAIN cache => leaves \subseteq ReadableKeys
  /\ key \in ReadableKeys => cache[key].data = merged

\* C14 (top-level merge): in the transactions and the appraisals task the
\* top-level chunk is written at most once over all runs, and exactly once
\* by the run that returns without having found it; its write begins when
\* every leaf of the task is readable; and the payload written, and read
\* back ever after, is the concatenation of the leaf chunks in configuration
\* order (transactions: prefecture, then year; appraisals: year, each year
\* the deduplicated concatenation of its region leaves).
C14_TopLevelMerge ==
  /\ TopChunkOK(TxAllKey, TxLeafKeys, TxLeavesMerged)
  /\ TopChunkOK(OpAllKey, OpLeafKeys, OpLeavesMerged)
  /\ (ret.tx.set /\ TxAllKey \notin startKeys) =>
       (CountOf(wlog, TxAllKey) = 1 /\ ret.tx.data = TxLeavesMerged)
  /\ (ret.op.set /\ OpAllKey \notin startKeys) =>
       (CountOf(wlog, OpAllKey) = 1 /\ ret.op.data = OpLeavesMerged)

\* A later run finishes the appraisals task from region leaves it found and
\* region leaves it scanned itself; the transactions chunk was written before,
\* from a migrated leaf and fetched ones.
C14_Witness ==
  /\ run >= 2 /\ pc = "done"
  /\ ret.tx.set /\ ret.op.set
  /\ OpAllKey \notin startKeys
  /\ \E k \in OpLeafKeys : k \in startKeys
  /\ \E k \in OpLeafKeys : k \notin startKeys
  /\ OldPresent(P01)
  /\ TxAllKey \in Range(wlog)
  /\ TxYearKey(P01, 2024) \in Range(wlog) /\ TxYearKey(P01, 2025) \in Range(wlog)
  /\ ret.tx.data # <<>> /\ ret.op.data # <<>>

----------------------------------------------------------------------------
\* fetch_municipality_boundaries and the rest of main().  For each prefecture
\* the file host either fails to list the files or lists up to MaxFiles of
\* them; a listed file fails to download, holds no feature, or holds one.

MaxFiles == 2

FileOutcomes == {"fail", "empty", "one"}

PrefOutcomes ==
  {[listed |-> FALSE, files |-> <<>>]}
    \cup {[listed |-> TRUE, files |-> fs] :
            fs \in UNION {[1..n -> FileOutcomes] : n \in 0..MaxFiles}}

\* fname.replace(".json", ""): the files of a prefecture are named after its
\* municipalities, here the prefecture code followed by 10 and the position.
FileCode(pref_code, n) == pref_code \o <<"1", "0">> \o Digits(n)

\* all_features after the pass of the loop for one prefecture: a failed
\* listing or download adds nothing, a file adds its features, each stamped
\* with the code in the file name.
RECURSIVE ExtendFeatures(_, _, _, _)
ExtendFeatures(all_features, pref_code, files, n) ==
  IF n > Len(files) THEN all_features
  ELSE ExtendFeatures(
         IF files[n] = "one"
         THEN Append(all_features, [city_code |-> FileCode(pref_code, n)])
         ELSE all_features,
         pref_code, files, n + 1)

\* main() reaches line 44; a later start of the process begins here again.
BndStart ==
  /\ bnd.pc \in {"idle", "exit1", "done"}
  /\ bnd.runs < MaxRuns
  /\ bnd' = [bnd EXCEPT !.pc = "fetch", !.runs = @ + 1, !.i = 1,
                        !.all_features = <<>>, !.boundaries = <<>>,
                        !.processed = FALSE, !.built = FALSE]
  /\ UNCHANGED <<fetchVars, keyTest, proc, tiling>>

\* The local file is returned when it exists.
BndFetch ==
  /\ bnd.pc = "fetch"
  /\ bnd' = IF bnd.local.exists
            THEN [bnd EXCEPT !.boundaries = bnd.local.features, !.pc = "check"]
            ELSE [bnd EXCEPT !.pc = "pref"]
  /\ UNCHANGED <<fetchVars, keyTest, proc, tiling>>

\* One pass of the loop over PREF_CODES, both try blocks included.
BndPref ==
  /\ bnd.pc = "pref"
  /\ bnd' = IF bnd.i > Len(PREF_CODES)
            THEN [bnd EXCEPT !.pc = "finish"]
            ELSE [bnd EXCEPT !.i = @ + 1,
                             !.all_features =
                               IF bnd.src[bnd.i].listed
                               THEN ExtendFeatures(@, PREF_CODES[bnd.i],
                                                   bnd.src[bnd.i].files, 1)
                               ELSE @]
  /\ UNCHANGED <<fetchVars, keyTest, proc, tiling>>

\* After the loop: an empty collection is returned without being saved, any
\* other is saved as the local file and returned.
BndFinish ==
  /\ bnd.pc = "finish"
  /\ bnd' = IF bnd.all_features = <<>>
            THEN [bnd EXCEPT !.boundaries = <<>>, !.pc = "check"]
            ELSE [bnd EXCEPT !.local = [exists |-> TRUE,
                                        features |-> bnd.all_features],
                             !.boundaries = bnd.all_features,
                             !.pc = "check"]
  /\ UNCHANGED <<fetchVars, keyTest, proc, tiling>>

\* Mutant of MainCheck: main() goes on whatever the collection holds.
MainNoCheck ==
  /\ bnd.pc = "check"
  /\ bnd' = [bnd EXCEPT !.pc = "process"]
  /\ UNCHANGED <<fetchVars, keyTest, proc, tiling>>

\* main(): sys.exit(1) when the collection has no features.
MainCheck ==
  /\ bnd.pc = "check"
  /\ bnd' = [bnd EXCEPT !.pc = IF bnd.boundaries = <<>> THEN "exit1" ELSE "process"]
  /\ UNCHANGED <<fetchVars, keyTest, proc, tiling>>

\* main(): DataProcessor(...).process()
MainProcess ==
  /\ bnd.pc = "process"
  /\ bnd' = [bnd EXCEPT !.processed = TRUE, !.pc = "build"]
  /\ UNCHANGED <<fetchVars, keyTest, proc, tiling>>

\* main(): MapBuilder(results).build()
MainBuild ==
  /\ bnd.pc = "build"
  /\ bnd' = [bnd EXCEPT !.built = TRUE, !.pc = "done"]
  /\ UNCHANGED <<fetchVars, keyTest, proc, tiling>>

\* The local file a former run left, if any.
LocalFiles ==
  {[exists |-> FALSE, features |-> <<>>],
   [exists |-> TRUE, features |-> <<[city_code |-> FileCode(P01, 1)]>>]}

InitBnd ==
  /\ config = BaseConfig
  /\ cache = EmptyCache
  /\ failing = {}
  /\ pc = "idle"
  /\ run = 0
  /\ ix = ix0 /\ acc = acc0 /\ wr = wr0
  /\ ret = ret0 /\ prev = ret0
  /\ calls = <<>> /\ wlog = <<>> /\ runWrites = <<>>
  /\ startKeys = {}
  /\ prov = EmptyProv
  /\ err = "none"
  /\ keyTest = NoKeyTest
  /\ proc = NoProc /\ tiling = NoTiling /\ removed = NoRemoval /\ fetched = {} /\ workers = NoWorkers
  /\ \E s \in [DOMAIN PREF_CODES -> PrefOutcomes], l \in LocalFiles :
       bnd = [NoBnd EXCEPT !.src = s, !.local = l]

NextBnd ==
  \/ BndStart
  \/ BndFetch
  \/ BndPref
  \/ BndFinish
  \/ MainCheck
  \/ MainProcess
  \/ MainBuild

SpecBnd == InitBnd /\ [][NextBnd]_vars

\* C15 (missing prerequisite): when fetch_municipality_boundaries returns a
\* collection without features, the run ends with sys.exit(1) and neither
\* DataProcessor.process nor MapBuilder.build has been invoked in it; they
\* are invoked only with a collection that has features; and the local
\* boundary file, when it exists, is never an empty collection.
C15_EmptyBoundariesAbort ==
  /\ bnd.pc = "exit1" => (bnd.boundaries = <<>> /\ ~bnd.processed /\ ~bnd.built)
  /\ bnd.pc \in {"process", "build", "done"} => bnd.boundaries # <<>>
  /\ (bnd.processed \/ bnd.built) => bnd.boundaries # <<>>
  /\ bnd.local.exists => bnd.local.features # <<>>

\* A second run ends with sys.exit(1) again: nothing was saved by the first,
\* whose downloads met a failed listing, a failed file and a file without
\* features.
C15_Witness ==
  /\ bnd.pc = "exit1" /\ bnd.runs >= 2
  /\ ~bnd.local.exists
  /\ ~bnd.src[1].listed
  /\ bnd.src[2].listed /\ bnd.src[2].files = <<"fail", "empty">>

----------------------------------------------------------------------------
\* A cache directory that cannot be written: open(path, "w") raises and no
\* file appears, or json.dump raises and the emptied file stays.  No handler
\* of the fetcher or of main() encloses a _write_cache call.

\* Mutant of WriteFail: the exception is swallowed by a handler around the
\* write and the task goes on.
WriteFailSwallowed ==
  /\ pc \in {"write_open", "write_dump"}
  /\ pc' = wr.next
  /\ wr' = wr0
  /\ UNCHANGED <<config, cache, failing, keyTest, bnd, proc, tiling, removed, workers, fetched, run, ix, acc, ret,
                 prev, calls, wlog, runWrites, startKeys, prov, err>>

\* The exception leaves _write_cache, the task and main(); wr keeps the
\* arguments of the call that failed.
WriteFail ==
  /\ pc \in {"write_open", "write_dump"}
  /\ pc' = "aborted"
  /\ err' = "write"
  /\ ix' = ix0 /\ acc' = acc0
  /\ UNCHANGED <<config, cache, failing, keyTest, bnd, proc, tiling, removed, workers, fetched, run, wr, ret, prev,
                 calls, wlog, runWrites, startKeys, prov>>

NextW == Next \/ WriteFail

SpecW == Init /\ [][NextW]_vars

\* The run has been ended by a cache write that raised.
WriteAborted == pc = "aborted" /\ err = "write"

C16_NotDone ==
  WriteAborted =>
    /\ wr.key \notin ReadableKeys
    /\ ~ret[wr.task].set

C16_AbortsAtWrite ==
  /\ (/\ pc \in {"write_open", "write_dump"}
      /\ pc' \notin {"write_dump", "killed"}
      /\ wr.key \notin {k \in DOMAIN cache' : cache'[k].complete})
       => (pc' = "aborted" /\ err' = "write" /\ calls' = calls /\ ret' = ret)
  /\ WriteAborted => (calls' = calls \/ (run' = run + 1 /\ calls' = <<>>))

\* C16 (a failed cache write is fatal): a _write_cache call that raises ends
\* the run at that write, in every task and whether or not external calls of
\* the run have failed and been skipped before; the run issues no call
\* afterwards; the chunk is not readable and the task has not returned.
C16_WriteFailureFatal == []C16_NotDone /\ [][C16_AbortsAtWrite]_vars

\* The write of a transactions leaf raises in a run in which an external
\* call has failed and been skipped by its handler.
C16_Witness ==
  /\ WriteAborted
  /\ wr.key \in TxLeafKeys
  /\ wr.key \notin DOMAIN cache
  /\ \E i \in DOMAIN calls : calls[i].req \in failing /\ calls[i].leaf = wr.key

----------------------------------------------------------------------------
\* DataProcessor.  A raw record is a dict: a field is missing (no such key),
\* null, a string or a number.  Strings the code looks into are sequences of
\* characters or tokens: "takuchi" stands for the two characters of
\* residential land, "m2" for the square-metre sign.

Missing == [t |-> "missing", s |-> <<>>, n |-> 0]
Null == [t |-> "null", s |-> <<>>, n |-> 0]
StrV(cs) == [t |-> "str", s |-> cs, n |-> 0]
NumV(k) == [t |-> "num", s |-> <<>>, n |-> k]

\* A numeric cell of a frame: NaN, or the rational n / d with d > 0 (the
\* code's floats, without their rounding).
NaN == [na |-> TRUE, n |-> 0, d |-> 1]
RECURSIVE Gcd(_, _)
Gcd(a, b) == IF b = 0 THEN a ELSE Gcd(b, a % b)

\* A number as a fraction in lowest terms with a positive denominator.
Rat(n, d) ==
  LET g == Gcd(IF n < 0 THEN -n ELSE n, d)
  IN  [na |-> FALSE, n |-> n \div g, d |-> d \div g]
RatLess(a, b) == a.n * b.d < b.n * a.d
RatEq(a, b) == a.na = b.na /\ (~a.na => a.n * b.d = b.n * a.d)
RatPos(a) == ~a.na /\ a.n > 0

DigitChars == <<"0", "1", "2", "3", "4", "5", "6", "7", "8", "9">>
IsDigit(c) == \E i \in DOMAIN DigitChars : DigitChars[i] = c
DigitVal(c) == (CHOOSE i \in DOMAIN DigitChars : DigitChars[i] = c) - 1

RECURSIVE ParseDigits(_, _)
ParseDigits(cs, sofar) ==
  IF cs = <<>> THEN sofar
  ELSE ParseDigits(Tail(cs), 10 * sofar + DigitVal(Head(cs)))

\* pd.to_numeric(..., errors="coerce") of one cell: a string of digits
\* parses, any other string, null and a missing key give NaN.
ToNumeric(cell) ==
  IF cell.t = "num" THEN Rat(cell.n, 1)
  ELSE IF cell.t = "str" /\ cell.s # <<>> /\ \A i \in DOMAIN cell.s : IsDigit(cell.s[i])
  THEN Rat(ParseDigits(cell.s, 0), 1)
  ELSE NaN

\* astype(str) of one cell: NaN (a missing key too) becomes the text nan.
AsStr(cell) ==
  IF cell.t = "str" THEN cell.s
  ELSE IF cell.t = "num" THEN Digits(cell.n)
  ELSE IF cell.t = "null" THEN <<"N", "o", "n", "e">>
  ELSE <<"n", "a", "n">>

\* Series.str.contains(token, na=False) of one cell.
StrContains(cell, token) == cell.t = "str" /\ IsSub(<<token>>, cell.s)

\* The columns of pd.DataFrame(records): the keys some record has.
Columns(records, fields) ==
  {f \in fields : \E i \in DOMAIN records : records[i][f].t # "missing"}

\* pd.DataFrame(): no column, no row.
EmptyFrame == [cols |-> {}, rows |-> <<>>]

\* The values of the Type field: land only (the one TRANSACTION_TYPES
\* keeps), land with a building, farmland.
LandOnly == <<"takuchi", "(", "tochi", ")">>
LandAndBuilding == <<"takuchi", "(", "tochi", "to", "tatemono", ")">>
Farmland == <<"nouchi">>

\* TRANSACTION_TYPES["land_only"]["filter"]
LandOnlyFilter(cell) == cell = StrV(LandOnly)

TxFields ==
  {"Type", "TradePrice", "PricePerUnit", "Area", "_city_code", "MunicipalityCode"}

\* One row of _clean_transactions: the derived columns of a raw record, given
\* the columns the frame has.
TxRow(r, cols) ==
  LET price == ToNumeric(IF "TradePrice" \in cols THEN r.TradePrice
                         ELSE IF "PricePerUnit" \in cols THEN r.PricePerUnit
                         ELSE Missing)
      area == IF "Area" \in cols THEN ToNumeric(r.Area) ELSE NaN
  IN  [Type |-> r.Type,
       price |-> price,
       area |-> area,
       price_per_sqm |->
         IF RatPos(area)
         THEN IF price.na THEN NaN ELSE Rat(price.n * area.d, price.d * area.n)
         ELSE price,
       city_code |->
         IF "_city_code" \in cols THEN AsStr(r._city_code)
         ELSE IF "MunicipalityCode" \in cols THEN AsStr(r.MunicipalityCode)
         ELSE <<>>]

\* DataProcessor._clean_transactions
CleanTransactions(raw) ==
  IF raw = <<>> THEN EmptyFrame
  ELSE LET cols == Columns(raw, TxFields)
           typed == IF "Type" \in cols
                    THEN SelectSeq(raw, LAMBDA r : StrContains(r.Type, "takuchi"))
                    ELSE raw
           rows == [i \in DOMAIN typed |-> TxRow(typed[i], cols)]
       IN  [cols |-> cols \cup {"price", "area", "price_per_sqm", "city_code"},
            rows |-> SelectSeq(rows, LAMBDA w : RatPos(w.price_per_sqm))]

OpFields ==
  {"prefecture_code", "use_category_name_ja", "u_current_years_price_ja",
   "last_years_price", "_lat", "_lon"}

Residential == <<"jutakuchi">>

\* str.extract(r"^([\d,]+)"): the leading run of digits and commas.
RECURSIVE LeadingDigits(_)
LeadingDigits(cs) ==
  IF cs = <<>> \/ ~(IsDigit(Head(cs)) \/ Head(cs) = ",") THEN <<>>
  ELSE <<Head(cs)>> \o LeadingDigits(Tail(cs))

\* The price parsed from u_current_years_price_ja: the leading run without
\* its commas, NaN when there is no digit.
ParsePrice(cell) ==
  LET digits == SelectSeq(LeadingDigits(AsStr(cell)), LAMBDA c : c # ",")
  IN  IF digits = <<>> THEN NaN ELSE Rat(ParseDigits(digits, 0), 1)

\* One row of _clean_official_prices.  The columns of the last fallback
\* (currencyAsOfLandPrice, price, Price) are carried by no record here, so
\* without the first two price columns official_price is NA.
OpRow(r, cols) ==
  [official_price |->
     IF "u_current_years_price_ja" \in cols THEN ParsePrice(r.u_current_years_price_ja)
     ELSE IF "last_years_price" \in cols THEN ToNumeric(r.last_years_price)
     ELSE NaN,
   lat |-> IF "_lat" \in cols THEN ToNumeric(r._lat) ELSE NaN,
   lon |-> IF "_lon" \in cols THEN ToNumeric(r._lon) ELSE NaN]

\* DataProcessor._clean_official_prices
CleanOfficialPrices(raw) ==
  IF raw = <<>> THEN EmptyFrame
  ELSE LET cols == Columns(raw, OpFields)
           inPrefs == IF "prefecture_code" \in cols
                      THEN SelectSeq(raw, LAMBDA r :
                             AsStr(r.prefecture_code) \in Range(PREF_CODES))
                      ELSE raw
           resid == IF "use_category_name_ja" \in cols
                    THEN SelectSeq(inPrefs, LAMBDA r :
                           r.use_category_name_ja = StrV(Residential))
                    ELSE inPrefs
           perSqm == IF "u_current_years_price_ja" \in cols
                     THEN SelectSeq(resid, LAMBDA r :
                            IsSub(<<"m2">>, AsStr(r.u_current_years_price_ja)))
                     ELSE resid
           rows == [i \in DOMAIN perSqm |-> OpRow(perSqm[i], cols)]
       IN  [cols |-> cols \cup {"official_price", "lat", "lon"},
            rows |-> SelectSeq(rows, LAMBDA w :
                       ~w.lat.na /\ ~w.lon.na /\ RatPos(w.official_price))]

\* DataFrame.empty: no row, or no column.
FrameEmpty(df) == df.rows = <<>> \/ df.cols = {}

\* The boundary features main() hands over: Sapporo in two parts (two
\* features of one file, so one code), Hakodate next to the first part (they
\* share the edge lon = 10), and Aomori apart, where no record lies.
BoundaryFeatures ==
  <<[city_code |-> <<"0", "1", "1", "0", "0">>, N03_004 |-> "Sapporo",
     geometry |-> [x0 |-> 0, x1 |-> 10, y0 |-> 0, y1 |-> 10]],
    [city_code |-> <<"0", "1", "2", "0", "2">>, N03_004 |-> "Hakodate",
     geometry |-> [x0 |-> 10, x1 |-> 20, y0 |-> 0, y1 |-> 10]],
    [city_code |-> <<"0", "2", "2", "0", "1">>, N03_004 |-> "Aomori",
     geometry |-> [x0 |-> 30, x1 |-> 40, y0 |-> 0, y1 |-> 10]],
    [city_code |-> <<"0", "1", "1", "0", "0">>, N03_004 |-> "Sapporo",
     geometry |-> [x0 |-> 0, x1 |-> 10, y0 |-> 20, y1 |-> 30]]>>

\* DataProcessor._load_boundaries
LoadBoundaries(features) ==
  [i \in DOMAIN features |->
     [city_code |-> features[i].city_code,
      city_name_geo |-> features[i].N03_004,
      geometry |-> features[i].geometry]]

\* Mutant of Within: a point on a polygon's edge counts as inside it.
WithinClosed(lon, lat, g) ==
  /\ ~RatLess(lon, Rat(g.x0, 1)) /\ ~RatLess(Rat(g.x1, 1), lon)
  /\ ~RatLess(lat, Rat(g.y0, 1)) /\ ~RatLess(Rat(g.y1, 1), lat)

\* predicate="within": the point lies in the interior of the polygon.
Within(lon, lat, g) ==
  /\ RatLess(Rat(g.x0, 1), lon) /\ RatLess(lon, Rat(g.x1, 1))
  /\ RatLess(Rat(g.y0, 1), lat) /\ RatLess(lat, Rat(g.y1, 1))

\* gpd.sjoin(points, boundary_slim, how="left", predicate="within"): one row
\* per polygon the point is within, one row without code when there is none.
SJoinLeft(points, polys) ==
  Flatten([i \in DOMAIN points |->
    LET ms == SelectSeq(polys, LAMBDA g :
                Within(points[i].lon, points[i].lat, g.geometry))
    IN  IF ms = <<>>
        THEN <<[official_price |-> points[i].official_price,
                 na |-> TRUE, geo_city_code |-> <<>>]>>
        ELSE [j \in DOMAIN ms |->
                [official_price |-> points[i].official_price,
                 na |-> FALSE, geo_city_code |-> ms[j].city_code]]])

\* The keys of a groupby: each value once.  (groupby sorts them; the order of
\* the statistics rows does not show in a left merge.)
RECURSIVE DistinctSeq(_, _)
DistinctSeq(xs, seen) ==
  IF xs = <<>> THEN <<>>
  ELSE IF Head(xs) \in seen THEN DistinctSeq(Tail(xs), seen)
  ELSE <<Head(xs)>> \o DistinctSeq(Tail(xs), seen \cup {Head(xs)})

RatAdd(a, b) == Rat(a.n * b.d + b.n * a.d, a.d * b.d)

RECURSIVE RatSum(_)
RatSum(vals) == IF vals = <<>> THEN Rat(0, 1) ELSE RatAdd(Head(vals), RatSum(Tail(vals)))

Mean(vals) == Rat(RatSum(vals).n, RatSum(vals).d * Len(vals))

RECURSIVE RatInsert(_, _)
RatInsert(v, sorted) ==
  IF sorted = <<>> THEN <<v>>
  ELSE IF RatLess(v, Head(sorted)) THEN <<v>> \o sorted
  ELSE <<Head(sorted)>> \o RatInsert(v, Tail(sorted))

RECURSIVE RatSort(_)
RatSort(vals) == IF vals = <<>> THEN <<>> ELSE RatInsert(Head(vals), RatSort(Tail(vals)))

Median(vals) ==
  LET sorted == RatSort(vals)
      n == Len(vals)
  IN  IF n % 2 = 1 THEN sorted[(n + 1) \div 2]
      ELSE LET sum == RatAdd(sorted[n \div 2], sorted[n \div 2 + 1])
           IN  Rat(sum.n, 2 * sum.d)

\* DataProcessor._compute_official_stats
ComputeOfficialStats(op_df, gdf) ==
  IF FrameEmpty(op_df) THEN <<>>
  ELSE LET joined == SelectSeq(SJoinLeft(op_df.rows, gdf), LAMBDA w : ~w.na)
           keys == DistinctSeq([i \in DOMAIN joined |-> joined[i].geo_city_code], {})
           prices(c) == LET of == SelectSeq(joined, LAMBDA w : w.geo_city_code = c)
                        IN  [i \in DOMAIN of |-> of[i].official_price]
       IN  [k \in DOMAIN keys |->
              [city_code |-> keys[k],
               op_mean |-> Mean(prices(keys[k])),
               op_count |-> Rat(Len(prices(keys[k])), 1)]]

\* groupby("city_code")["price_per_sqm"].agg(["median", "count"])
TxStats(rows) ==
  LET keys == DistinctSeq([i \in DOMAIN rows |-> rows[i].city_code], {})
      vals(c) == LET of == SelectSeq(rows, LAMBDA w : w.city_code = c)
                 IN  [i \in DOMAIN of |-> of[i].price_per_sqm]
  IN  [k \in DOMAIN keys |->
         [city_code |-> keys[k],
          tx_median |-> Median(vals(keys[k])),
          tx_count |-> Rat(Len(vals(keys[k])), 1)]]

\* Mutant of LeftMerge: how="inner".
InnerMerge(left, right, blank) ==
  Flatten([i \in DOMAIN left |->
    LET ms == SelectSeq(right, LAMBDA r : r.city_code = left[i].city_code)
    IN  [j \in DOMAIN ms |-> left[i] @@ ms[j]]])

\* left.merge(right, on="city_code", how="left"): a left row once per right
\* row of its code, once with absent values (blank) when there is none.
LeftMerge(left, right, blank) ==
  Flatten([i \in DOMAIN left |->
    LET ms == SelectSeq(right, LAMBDA r : r.city_code = left[i].city_code)
    IN  IF ms = <<>> THEN <<left[i] @@ blank>>
        ELSE [j \in DOMAIN ms |-> left[i] @@ ms[j]]])

\* Mutant of DeviationPct: the mask is left out and an absent or zero mean
\* gives 0.
DeviationPctNoMask(tx_median, op_mean) ==
  IF tx_median.na THEN NaN
  ELSE IF ~RatPos(op_mean) THEN Rat(0, 1)
  ELSE Rat((tx_median.n * op_mean.d - op_mean.n * tx_median.d) * 100,
           tx_median.d * op_mean.n)

\* deviation_pct of one row: set under the mask op_mean.notna() & op_mean > 0
\* to (tx_median - op_mean) / op_mean * 100, NaN when tx_median is NaN.
DeviationPct(tx_median, op_mean) ==
  IF ~RatPos(op_mean) \/ tx_median.na THEN NaN
  ELSE Rat((tx_median.n * op_mean.d - op_mean.n * tx_median.d) * 100,
           tx_median.d * op_mean.n)

\* DataProcessor._compute_deviation_ratios
ComputeDeviationRatios(tx_df, op_stats, gdf) ==
  LET tx_stats == IF FrameEmpty(tx_df) THEN <<>> ELSE TxStats(tx_df.rows)
      withTx == LeftMerge(gdf, tx_stats, [tx_median |-> NaN, tx_count |-> NaN])
      withOp == LeftMerge(withTx, op_stats, [op_mean |-> NaN, op_count |-> NaN])
  IN  [i \in DOMAIN withOp |->
         withOp[i] @@
           [deviation_pct |-> DeviationPct(withOp[i].tx_median, withOp[i].op_mean)]]

\* Raw records the acquisition can hand over, and records that lack the
\* expected fields.

MaxRecords == 2

TxRaw(type, price, area, code) ==
  [Type |-> type, TradePrice |-> price, PricePerUnit |-> Missing, Area |-> area,
   _city_code |-> code, MunicipalityCode |-> Missing]

Sapporo == <<"0", "1", "1", "0", "0">>
Hakodate == <<"0", "1", "2", "0", "2">>
Aomori == <<"0", "2", "2", "0", "1">>

\* Land in Sapporo at 110 and at 90 per square metre; land with a building
\* in Hakodate; a record with the stamped code only; land in Hakodate whose
\* area is not a number (the price stands as it is).
TxRawRecords ==
  {TxRaw(StrV(LandOnly), StrV(Digits(1100)), StrV(Digits(10)), StrV(Sapporo)),
   TxRaw(StrV(LandOnly), StrV(Digits(900)), StrV(Digits(10)), StrV(Sapporo)),
   TxRaw(StrV(LandAndBuilding), StrV(Digits(5000)), StrV(Digits(100)), StrV(Hakodate)),
   TxRaw(Missing, Missing, Missing, StrV(Sapporo)),
   TxRaw(StrV(LandOnly), StrV(Digits(300)), StrV(Digits(2000) \o <<"m2", "ijou">>),
         StrV(Hakodate))}

OpRaw(pref, use, price, lon, lat) ==
  [prefecture_code |-> pref, use_category_name_ja |-> use,
   u_current_years_price_ja |-> price, last_years_price |-> Missing,
   _lon |-> lon, _lat |-> lat]

PerSqm(digits) == StrV(digits \o <<"(", "yen", "/", "m2", ")">>)

\* Residential points: in the first part of Sapporo (100), in Hakodate
\* (1,100), on the edge the two share (200), outside every polygon (500), in
\* the second part of Sapporo (300); and a record with the prefecture only.
OpRawRecords ==
  {OpRaw(StrV(P01), StrV(Residential), PerSqm(Digits(100)), NumV(5), NumV(5)),
   OpRaw(StrV(P01), StrV(Residential), PerSqm(<<"1", ",", "1", "0", "0">>),
         NumV(15), NumV(5)),
   OpRaw(StrV(P01), StrV(Residential), PerSqm(Digits(200)), NumV(10), NumV(5)),
   OpRaw(StrV(P01), StrV(Residential), PerSqm(Digits(500)), NumV(50), NumV(50)),
   OpRaw(StrV(P01), StrV(Residential), PerSqm(Digits(300)), NumV(5), NumV(25)),
   OpRaw(StrV(P01), Missing, Missing, Missing, Missing)}

SeqsUpTo(S, n) == UNION {[1..k -> S] : k \in 0..n}

\* DataProcessor(transactions, official_prices, boundaries)
NewProc(raw_tx, raw_op) ==
  [stage |-> "new", direct |-> FALSE, raw_tx |-> raw_tx, raw_op |-> raw_op,
   tx_df |-> EmptyFrame, op_df |-> EmptyFrame, gdf |-> <<>>, op_stats |-> <<>>,
   result |-> <<>>]

\* Statistics tables handed to _compute_deviation_ratios directly: a mean of
\* 0, which process() itself cannot produce.
DirectStats ==
  {<<[city_code |-> Sapporo, op_mean |-> Rat(0, 1), op_count |-> Rat(1, 1)]>>,
   <<[city_code |-> Sapporo, op_mean |-> Rat(100, 1), op_count |-> Rat(2, 1)],
     [city_code |-> Hakodate, op_mean |-> Rat(0, 1), op_count |-> Rat(1, 1)]>>}

\* _compute_deviation_ratios about to be called with cleaned transactions
\* and one of DirectStats.
DirectProc(raw_tx, op_stats) ==
  [NewProc(raw_tx, <<>>) EXCEPT !.stage = "stats", !.direct = TRUE,
                                !.tx_df = CleanTransactions(raw_tx),
                                !.gdf = LoadBoundaries(BoundaryFeatures),
                                !.op_stats = op_stats]

\* process(): the two cleaning steps.
ProcClean ==
  /\ proc.stage = "new"
  /\ proc' = [proc EXCEPT !.stage = "cleaned",
                          !.tx_df = CleanTransactions(proc.raw_tx),
                          !.op_df = CleanOfficialPrices(proc.raw_op)]
  /\ UNCHANGED <<fetchVars, keyTest, bnd, tiling>>

\* process(): _load_boundaries and _compute_official_stats.
ProcStats ==
  /\ proc.stage = "cleaned"
  /\ LET gdf == LoadBoundaries(BoundaryFeatures)
     IN  proc' = [proc EXCEPT !.stage = "stats",
                              !.gdf = gdf,
                              !.op_stats = ComputeOfficialStats(proc.op_df, gdf)]
  /\ UNCHANGED <<fetchVars, keyTest, bnd, tiling>>

\* process(): the loop over TRANSACTION_TYPES.  tx_df["Type"] raises KeyError
\* when the frame has no such column.
ProcRatios ==
  /\ proc.stage = "stats"
  /\ proc' =
       IF "Type" \notin proc.tx_df.cols
       THEN [proc EXCEPT !.stage = "raised"]
       ELSE LET filtered ==
                  [proc.tx_df EXCEPT !.rows =
                     SelectSeq(@, LAMBDA w : LandOnlyFilter(w.Type))]
            IN  [proc EXCEPT !.stage = "done",
                             !.result = ComputeDeviationRatios(
                                          filtered, proc.op_stats, proc.gdf)]
  /\ UNCHANGED <<fetchVars, keyTest, bnd, tiling>>

InitProc ==
  /\ config = BaseConfig
  /\ cache = EmptyCache
  /\ failing = {}
  /\ pc = "idle"
  /\ run = 0
  /\ ix = ix0 /\ acc = acc0 /\ wr = wr0
  /\ ret = ret0 /\ prev = ret0
  /\ calls = <<>> /\ wlog = <<>> /\ runWrites = <<>>
  /\ startKeys = {}
  /\ prov = EmptyProv
  /\ err = "none"
  /\ keyTest = NoKeyTest
  /\ bnd = NoBnd /\ tiling = NoTiling /\ removed = NoRemoval /\ fetched = {} /\ workers = NoWorkers
  /\ \/ \E raw_tx \in SeqsUpTo(TxRawRecords, MaxRecords),
          raw_op \in SeqsUpTo(OpRawRecords, MaxRecords) :
            proc = NewProc(raw_tx, raw_op)
     \/ \E raw_tx \in SeqsUpTo(TxRawRecords, MaxRecords) \ {<<>>},
          op_stats \in DirectStats :
            /\ "Type" \in CleanTransactions(raw_tx).cols
            /\ proc = DirectProc(raw_tx, op_stats)

NextProc ==
  \/ ProcClean
  \/ ProcStats
  \/ ProcRatios

SpecProc == InitProc /\ [][NextProc]_vars

C18_Inside(w, g) ==
  /\ g.x0 * w.lon.d < w.lon.n /\ w.lon.n < g.x1 * w.lon.d
  /\ g.y0 * w.lat.d < w.lat.n /\ w.lat.n < g.y1 * w.lat.d

\* The cleaned appraisal points strictly inside a polygon of unit c.
C18_PointsOf(c) ==
  SelectSeq(proc.op_df.rows, LAMBDA w :
    \E j \in DOMAIN proc.gdf :
      proc.gdf[j].city_code = c /\ C18_Inside(w, proc.gdf[j].geometry))

\* C18: the statistics _compute_official_stats returns count each cleaned
\* appraisal point in the unit whose polygon it lies strictly inside and in
\* no other: a unit's op_count is the number of such points and its op_mean
\* their average price, a unit with no such point has no statistics row, a
\* point inside no polygon is counted nowhere, and the call returns.  The
\* counts therefore add up to at most the number of points.
C18_SpatialJoin ==
  (proc.stage \in {"stats", "done"} /\ ~proc.direct) =>
    LET codes == {proc.gdf[j].city_code : j \in DOMAIN proc.gdf}
        rowsOf(c) == {k \in DOMAIN proc.op_stats : proc.op_stats[k].city_code = c}
    IN  /\ \A k \in DOMAIN proc.op_stats : proc.op_stats[k].city_code \in codes
        /\ \A c \in codes :
             LET pts == C18_PointsOf(c)
             IN  IF pts = <<>> THEN rowsOf(c) = {}
                 ELSE /\ Cardinality(rowsOf(c)) = 1
                      /\ \A k \in rowsOf(c) :
                           /\ RatEq(proc.op_stats[k].op_count, Rat(Len(pts), 1))
                           /\ RatEq(proc.op_stats[k].op_mean,
                                    Mean([i \in DOMAIN pts |-> pts[i].official_price]))
        /\ RatSum([k \in DOMAIN proc.op_stats |-> proc.op_stats[k].op_count]).n
             <= Len(proc.op_df.rows)

\* Statistics computed from two cleaned points, one inside Sapporo only and
\* one inside no polygon: one row, Sapporo's, with a count of 1.
C18_Witness ==
  /\ proc.stage = "stats" /\ ~proc.direct
  /\ Len(proc.op_df.rows) = 2
  /\ Len(C18_PointsOf(Sapporo)) = 1
  /\ C18_PointsOf(Hakodate) = <<>> /\ C18_PointsOf(Aomori) = <<>>
  /\ Len(proc.op_stats) = 1
  /\ proc.op_stats[1].city_code = Sapporo
  /\ RatEq(proc.op_stats[1].op_count, Rat(1, 1))

\* The cleaned land-only transactions of unit c, which its median is taken
\* over.
C19_LandRowsOf(c) ==
  SelectSeq(proc.tx_df.rows, LAMBDA w : w.Type = StrV(LandOnly) /\ w.city_code = c)

\* C19: the result of process() has one row per boundary polygon, in the
\* boundary set's order and with its code and geometry: no polygon is dropped
\* and none appears twice.  A unit with no transaction and no appraisal
\* statistics is there with every statistic absent, and a unit with a single
\* transaction is there with tx_count 1.
C19_EveryBoundaryOnce ==
  proc.stage = "done" =>
    /\ Len(proc.result) = Len(proc.gdf)
    /\ \A i \in DOMAIN proc.gdf :
         LET b == proc.gdf[i]
             r == proc.result[i]
             txs == C19_LandRowsOf(b.city_code)
             hasOp == \E k \in DOMAIN proc.op_stats :
                        proc.op_stats[k].city_code = b.city_code
         IN  /\ r.city_code = b.city_code
             /\ r.geometry = b.geometry
             /\ r.city_name_geo = b.city_name_geo
             /\ IF txs = <<>> THEN r.tx_median.na /\ r.tx_count.na
                ELSE ~r.tx_median.na /\ RatEq(r.tx_count, Rat(Len(txs), 1))
             /\ IF hasOp THEN ~r.op_mean.na /\ ~r.op_count.na
                ELSE r.op_mean.na /\ r.op_count.na
             /\ (txs = <<>> /\ ~hasOp) => r.deviation_pct.na

\* A result computed from transactions and appraisals: Aomori has no data
\* and is there with absent statistics, a unit has a single transaction, and
\* the two parts of Sapporo are both there with Sapporo's appraisal mean.
C19_Witness ==
  /\ proc.stage = "done" /\ ~proc.direct
  /\ Len(proc.result) = 4
  /\ \E i \in DOMAIN proc.result :
       /\ proc.result[i].city_code = Aomori
       /\ proc.result[i].tx_median.na /\ proc.result[i].op_mean.na
  /\ \E i \in DOMAIN proc.result : RatEq(proc.result[i].tx_count, Rat(1, 1))
  /\ \E i, j \in DOMAIN proc.result :
       /\ i # j
       /\ proc.result[i].city_code = Sapporo /\ proc.result[j].city_code = Sapporo
       /\ ~proc.result[i].op_mean.na /\ ~proc.result[j].op_mean.na

\* C20: cleaning and process() are total.  For every collection of raw
\* transaction records and raw appraisal records, the empty collection and
\* records without the expected fields included, the cleaned transactions
\* have the city_code, Type and price_per_sqm columns and the cleaned
\* appraisals the official_price, lat and lon columns, every row kept has a
\* positive price (and an appraisal row its coordinates), and process()
\* does not raise.
C20_CleaningTotal ==
  /\ proc.stage # "raised"
  /\ (proc.stage \in {"cleaned", "stats", "done"} /\ ~proc.direct) =>
       /\ {"city_code", "Type", "price_per_sqm"} \subseteq proc.tx_df.cols
       /\ {"official_price", "lat", "lon"} \subseteq proc.op_df.cols
       /\ \A i \in DOMAIN proc.tx_df.rows : RatPos(proc.tx_df.rows[i].price_per_sqm)
       /\ \A i \in DOMAIN proc.op_df.rows :
            /\ RatPos(proc.op_df.rows[i].official_price)
            /\ ~proc.op_df.rows[i].lat.na /\ ~proc.op_df.rows[i].lon.na

----------------------------------------------------------------------------
\* get_tiles_for_bbox called on its own.

MaxWorldZoom == 2

\* Rectangles of the size of the world at low zoom levels, and rectangles of
\* the size of config.REGION_BBOXES at TILE_ZOOM.  Latitudes and longitudes
\* are hundredths of a degree.
WorldLats == {-4160, 0, 4160, 6651, 8505, 8506, 8900}
WorldLons == {-18000, -9000, 0, 13930, 18000}
RegionLats == {4130, 4150, 4154, 4156, 4158, 4160}
RegionLons == {13930, 13931, 13932, 13936}

TileCall(north, south, west, east, zoom, lats, lons) ==
  [stage |-> "called", north |-> north, south |-> south, west |-> west,
   east |-> east, zoom |-> zoom, lats |-> lats, lons |-> lons, tiles |-> <<>>]

\* get_tiles_for_bbox(north, south, west, east, zoom)
TilesReturn ==
  /\ tiling.stage = "called"
  /\ tiling' = [tiling EXCEPT
                  !.stage = "returned",
                  !.tiles = get_tiles_for_bbox(tiling.north, tiling.south,
                                               tiling.west, tiling.east,
                                               tiling.zoom)]
  /\ UNCHANGED <<fetchVars, keyTest, bnd, proc>>

InitTile ==
  /\ config = BaseConfig
  /\ cache = EmptyCache
  /\ failing = {}
  /\ pc = "idle"
  /\ run = 0
  /\ ix = ix0 /\ acc = acc0 /\ wr = wr0
  /\ ret = ret0 /\ prev = ret0
  /\ calls = <<>> /\ wlog = <<>> /\ runWrites = <<>>
  /\ startKeys = {}
  /\ prov = EmptyProv
  /\ err = "none"
  /\ keyTest = NoKeyTest
  /\ bnd = NoBnd /\ proc = NoProc /\ removed = NoRemoval /\ fetched = {} /\ workers = NoWorkers
  /\ \/ \E north, south \in WorldLats, west, east \in WorldLons,
          zoom \in 0..MaxWorldZoom :
            tiling = TileCall(north, south, west, east, zoom, WorldLats, WorldLons)
     \/ \E north, south \in RegionLats, west, east \in RegionLons :
            tiling = TileCall(north, south, west, east, BaseConfig.TILE_ZOOM,
                              RegionLats, RegionLons)

NextTile == TilesReturn

SpecTile == InitTile /\ [][NextTile]_vars

\* C21: get_tiles_for_bbox returns the tiles (x, y) with x from the column of
\* the northwest corner to the column of the southeast corner and y from
\* the row of the northwest corner to the row of the southeast corner, both
\* inclusive, each once, ordered by x and then by y; when the two corners
\* fall in one tile, as they do for a rectangle of no area, it returns that
\* one tile.
C21_CartesianProduct ==
  tiling.stage = "returned" =>
    LET n == 2 ^ tiling.zoom
        cell == 65536 \div n
        col(lon) == ((lon + 18000) * n) \div 36000
        row(lat) == IF MercFrac16(lat) >= 0 THEN MercFrac16(lat) \div cell
                    ELSE -((-MercFrac16(lat)) \div cell)
        x_nw == col(tiling.west)
        x_se == col(tiling.east)
        y_nw == row(tiling.north)
        y_se == row(tiling.south)
        w == IF x_se >= x_nw THEN x_se - x_nw + 1 ELSE 0
        h == IF y_se >= y_nw THEN y_se - y_nw + 1 ELSE 0
        t == tiling.tiles
    IN  /\ Len(t) = w * h
        /\ \A k \in DOMAIN t :
             t[k] = <<x_nw + ((k - 1) \div h), y_nw + ((k - 1) % h)>>
        /\ \A j, k \in DOMAIN t : j # k => t[j] # t[k]
        /\ (x_nw = x_se /\ y_nw = y_se) => t = <<<<x_nw, y_nw>>>>
        /\ (tiling.north = tiling.south /\ tiling.west = tiling.east) => Len(t) = 1

\* A call that returned a product of more than one column and more than one
\* row.
C21_Witness ==
  /\ tiling.stage = "returned"
  /\ Len(tiling.tiles) >= 6
  /\ \E j, k \in DOMAIN tiling.tiles :
       /\ tiling.tiles[j][1] # tiling.tiles[k][1]
       /\ tiling.tiles[j][2] # tiling.tiles[k][2]

\* The geographic bounds of tile t at the call's zoom level contain the
\* point (lat, lon): its column spans the longitudes from x * 360 / n - 180
\* to (x + 1) * 360 / n - 180 and its row the latitudes whose fraction lies
\* between y / n and (y + 1) / n, edges included.  MercFrac16 is the fraction
\* in 65536ths cut toward zero; it is the exact fraction on the equator.
C22_InBounds(lat, lon, t) ==
  LET n == 2 ^ tiling.zoom
      cell == 65536 \div n
      f == MercFrac16(lat)
  IN  /\ t[1] * 36000 <= (lon + 18000) * n
      /\ (lon + 18000) * n <= (t[1] + 1) * 36000
      /\ IF lat = 0 THEN t[2] * cell <= f /\ f <= (t[2] + 1) * cell
         ELSE IF f >= 0 THEN t[2] * cell <= f /\ f + 1 <= (t[2] + 1) * cell
         ELSE t[2] * cell <= f - 1 /\ f <= (t[2] + 1) * cell

\* Every point of the call's rectangle lies in the bounds of a returned tile.
C22_Covered ==
  \A lat \in tiling.lats, lon \in tiling.lons :
    (tiling.south <= lat /\ lat <= tiling.north /\
     tiling.west <= lon /\ lon <= tiling.east) =>
      \E k \in DOMAIN tiling.tiles : C22_InBounds(lat, lon, tiling.tiles[k])

----------------------------------------------------------------------------
\* The acquisition with the answered catalog requests of earlier runs kept in
\* the history.
NextCat ==
  \/ StartRunLogged
  \/ Interrupt
  \/ WriteOpen
  \/ WriteDump
  \/ FetchMunicipalities
  \/ MuniCall
  \/ MuniReturn
  \/ FetchAllTransactions
  \/ TxPref
  \/ MigrateOldPrefCache
  \/ MigrateItem
  \/ TxYear
  \/ TxCall
  \/ TxLeafDone
  \/ TxReturn
  \/ FetchOfficialPrices
  \/ OpYear
  \/ OpRegion
  \/ ScanTile
  \/ OpLeafDone
  \/ OpYearDone
  \/ OpReturn

SpecCat == Init /\ [][NextCat]_vars

\* The catalog request of prefecture p was issued in the current run.
C23_Issued(p) == \E i \in DOMAIN calls : calls[i].req = ReqCatalog(p)

\* C23: once a run has fetched the catalog of a prefecture (the call was
\* issued and answered), no later run issues the catalog call of that
\* prefecture again, however the fetching run ended.
C23_CatalogResumable == \A p \in fetched : ~C23_Issued(p)

----------------------------------------------------------------------------
\* The acquisition against a source that answers some requests badly.

\* A tile both regions scan and a transaction request answered with a
\* malformed last item; a tile request and a transaction request that raise.
BadAnswers ==
  {Malformed(ReqTile(2024, 13, 7266, 3053)),
   Malformed(ReqTx(<<"0", "1", "1", "0", "0">>, 2024, 1)),
   ReqTile(2025, 13, 7267, 3053),
   ReqTx(<<"0", "1", "2", "0", "2">>, 2025, 1)}

InitBad ==
  /\ config = BaseConfig
  /\ cache \in InitialCaches
  /\ failing \in SubsetsUpTo(BadAnswers, MaxFailures)
  /\ pc = "idle"
  /\ run = 0
  /\ ix = ix0 /\ acc = acc0 /\ wr = wr0
  /\ ret = ret0 /\ prev = ret0
  /\ calls = <<>> /\ wlog = <<>> /\ runWrites = <<>>
  /\ startKeys = {}
  /\ prov = EmptyProv
  /\ err = "none"
  /\ keyTest = NoKeyTest
  /\ bnd = NoBnd /\ proc = NoProc /\ tiling = NoTiling /\ removed = NoRemoval /\ fetched = {} /\ workers = NoWorkers

SpecBad == InitBad /\ [][Next]_vars

\* The payloads of the transactions and appraisals tasks: the chunks in the
\* cache, the payload being written and the values returned to main().
C24_Payloads ==
  {cache[k].data : k \in {j \in ReadableKeys : j.prefix # "municipalities"}}
    \cup {wr.data, ret.tx.data, ret.op.data}

\* C24: when the call of a request raises, or the processing of its answer
\* raises, no record of that answer is in a leaf chunk or in a merged
\* payload.
C24_FailedContributesNothing ==
  /\ \A rq \in failing :
       \A p \in C24_Payloads : \A i \in DOMAIN p :
         /\ rq.ep = "XPT002" =>
              \A f \in Range(TileCallRecords(<<rq.x, rq.y>>, rq.year)) : p[i] # f
         /\ rq.ep = "XPT002/malformed" =>
              \A f \in Range(TileCallRecords(<<rq.x, rq.y>>, rq.year)) : p[i] # f
         /\ rq.ep \in {"XIT001", "XIT001/malformed"} =>
              \A m \in Range(FullCatalog) :
                m.id = rq.code =>
                  \A r \in Range(TxCallRecords(m, rq.year, rq.q)) : p[i] # r

----------------------------------------------------------------------------
\* Runs that are not killed: every call returns or raises, the process takes
\* its next step, and any set of the flaky requests fails.

InitLive ==
  /\ config = BaseConfig
  /\ cache \in InitialCaches
  /\ failing \in SUBSET FlakyRequests
  /\ pc = "idle"
  /\ run = 0
  /\ ix = ix0 /\ acc = acc0 /\ wr = wr0
  /\ ret = ret0 /\ prev = ret0
  /\ calls = <<>> /\ wlog = <<>> /\ runWrites = <<>>
  /\ startKeys = {}
  /\ prov = EmptyProv
  /\ err = "none"
  /\ keyTest = NoKeyTest
  /\ bnd = NoBnd /\ proc = NoProc /\ tiling = NoTiling /\ removed = NoRemoval /\ fetched = {} /\ workers = NoWorkers

NextLive ==
  \/ StartRun
  \/ WriteOpen
  \/ WriteDump
  \/ FetchMunicipalities
  \/ MuniCall
  \/ MuniReturn
  \/ FetchAllTransactions
  \/ TxPref
  \/ MigrateOldPrefCache
  \/ MigrateItem
  \/ TxYear
  \/ TxCall
  \/ TxLeafDone
  \/ TxReturn
  \/ FetchOfficialPrices
  \/ OpYear
  \/ OpRegion
  \/ ScanTile
  \/ OpLeafDone
  \/ OpYearDone
  \/ OpReturn

\* The steps that read no cache key: weak fairness of each.
FairSteps ==
  /\ WF_vars(StartRun)
  /\ WF_vars(WriteOpen) /\ WF_vars(WriteDump)
  /\ WF_vars(MuniCall) /\ WF_vars(MuniReturn)
  /\ WF_vars(TxLeafDone) /\ WF_vars(TxReturn)
  /\ WF_vars(OpLeafDone) /\ WF_vars(OpYearDone) /\ WF_vars(OpReturn)

\* Weak fairness of the steps that compute a cache key, written out: the
\* step at position x can be taken whenever the process is at x, so
\* WF_vars(step at x) is "the process is not at x for ever without moving".
FairAt(x) == []<>(pc # x) \/ []<><<pc = x>>_vars

FairKeySteps ==
  \A x \in {"muni", "tx", "tx_pref", "tx_migrate", "mig_item", "tx_year",
            "tx_call", "op", "op_year", "op_region", "op_tile"} : FairAt(x)

SpecLive == InitLive /\ [][NextLive]_vars /\ FairSteps /\ FairKeySteps

\* C25: without a kill and with cache I/O that succeeds, a run that enters
\* fetch_all_transactions reaches its return with the top-level chunk
\* readable, and a run that enters fetch_official_prices reaches its return
\* with the top-level chunk readable, whichever requests fail; no run is
\* ended by a failing transaction or tile request.
C25_Termination ==
  /\ (pc = "tx") ~> (ret.tx.set /\ TxAllKey \in ReadableKeys)
  /\ (pc = "op") ~> (pc = "done" /\ ret.op.set /\ OpAllKey \in ReadableKeys)
  /\ [](pc = "aborted" => (err = "call" /\ ~ret.muni.set))

\* A first run that fetched every leaf with four requests failing and has
\* returned from both tasks, the two top-level chunks written.
C25_Witness ==
  /\ run = 1 /\ pc = "done"
  /\ Cardinality(failing) >= 4
  /\ ret.tx.set /\ ret.op.set
  /\ TxAllKey \in ReadableKeys /\ OpAllKey \in ReadableKeys
  /\ \E i, j \in DOMAIN wlog : wlog[i] = TxAllKey /\ wlog[j] = OpAllKey

---------------------------------------------------------------------------
\* The keys of the other tasks and of the former per-prefecture totals.
C26_ForeignKeys ==
  {MuniKey, OpAllKey}
    \cup {OldKey(p) : p \in Range(PREF_CODES)}
    \cup {OpYearKey(y) : y \in Range(OFFICIAL_PRICE_YEARS)}
    \cup {OpRegionKey(y, r) : y \in Range(OFFICIAL_PRICE_YEARS),
                              r \in Range(REGION_BBOXES)}

C26_LeafPrefixes ==
  {"tx_" \o JoinChars(p) \o "_" \o ToString(y) :
     p \in Range(PREF_CODES),
     y \in Range(TRANSACTION_YEARS) \cup Range(OLD_YEARS)}

\* C26: every key the transactions task hands to _write_cache is the leaf key
\* of one (prefecture, year) or the top-level key "transactions_all"; it is
\* never a per-prefecture total, the catalog key or a key of the appraisals
\* task, and at most one top-level key is ever written.
C26_TxWritesOnlyItsKeys ==
  /\ (pc \in {"write_open", "write_dump"} /\ wr.task = "tx") =>
       /\ wr.key.prefix \in C26_LeafPrefixes \cup {"transactions_all"}
       /\ wr.key \notin C26_ForeignKeys
  /\ Cardinality({i \in DOMAIN wlog : wlog[i].prefix = "transactions_all"}) <= MaxRuns
  /\ Cardinality({wlog[i] : i \in {j \in DOMAIN wlog :
                                     wlog[j].prefix = "transactions_all"}}) <= 1

\* The top-level write of a run that also wrote a migrated and a fetched leaf.
C26_Witness ==
  /\ pc = "write_dump" /\ wr.task = "tx" /\ wr.key = TxAllKey
  /\ \E i, j \in DOMAIN wlog :
       /\ wlog[i].prefix = "tx_01_2023"
       /\ wlog[j].prefix = "tx_01_2025"

---------------------------------------------------------------------------
\* The municipality of the catalog the source names in a transaction record.
C27_Served(r) ==
  {i \in DOMAIN FullCatalog : FullCatalog[i].id = r.MunicipalityCode}

C27_TxStamped(pref, year, r) ==
  /\ {"_city_code", "_city_name"} \subseteq DOMAIN r
  /\ \E i \in C27_Served(r) :
       /\ r._city_code = FullCatalog[i].id
       /\ r._city_name = FullCatalog[i].name
  /\ Len(r._city_code) >= 2
  /\ SubSeq(r._city_code, 1, 2) = pref
  /\ SubSeq(r.Period, 1, 4) = Digits(year)

C27_OpStamped(year, region, r) ==
  /\ {"_lon", "_lat", "_year"} \subseteq DOMAIN r
  /\ r._year = year
  /\ \E t \in Range(RegionTiles(region)) :
       \E f \in Range(TileData(year, t[1], t[2])) :
         /\ f.properties.u_standard_address_code = r.u_standard_address_code
         /\ r._lon = f.geometry.coordinates[1]
         /\ r._lat = f.geometry.coordinates[2]

\* C27: every record of a fetched transaction leaf (prefecture p, year y) in
\* the cache carries _city_code and _city_name of the municipality whose
\* request returned it, and that code begins with p; every record of an
\* appraisal leaf (region, year y) carries _lon and _lat of its feature and
\* _year = y.
C27_LeafRecordsStamped ==
  /\ \A p \in Range(PREF_CODES), y \in Range(TRANSACTION_YEARS) :
       (TxYearKey(p, y) \in ReadableKeys /\ ~Migrated(p, y)) =>
         \A r \in Range(cache[TxYearKey(p, y)].data) : C27_TxStamped(p, y, r)
  /\ \A y \in Range(OFFICIAL_PRICE_YEARS), g \in Range(REGION_BBOXES) :
       OpRegionKey(y, g) \in ReadableKeys =>
         \A r \in Range(cache[OpRegionKey(y, g)].data) : C27_OpStamped(y, g, r)

\* A fetched leaf of prefecture 01 holds records of two municipalities, and
\* an appraisal leaf holds records.
C27_Witness ==
  /\ TxYearKey(P01, 2025) \in ReadableKeys
  /\ {r._city_name : r \in Range(cache[TxYearKey(P01, 2025)].data)}
       = {"Sapporo", "Hakodate"}
  /\ \E y \in Range(OFFICIAL_PRICE_YEARS), g \in Range(REGION_BBOXES) :
       /\ OpRegionKey(y, g) \in ReadableKeys
       /\ cache[OpRegionKey(y, g)].data # <<>>

---------------------------------------------------------------------------
\* The cache is a directory of files the operator manages: between two runs
\* the operator deletes the file of one transaction leaf, the file of the
\* top-level chunk of the transactions, or both.

MaxDeletions == 1

\* The leaf keys are told from the file names (the prefix of the key).
TxLeafFiles(c) ==
  {k \in DOMAIN c :
     \E p \in Range(PREF_CODES), y \in Range(TRANSACTION_YEARS) :
       k.prefix = "tx_" \o JoinChars(p) \o "_" \o ToString(y)}

TxAllFiles(c) == {k \in DOMAIN c : k.prefix = "transactions_all"}

OperatorDelete ==
  /\ pc \in Stopped
  /\ removed.n < MaxDeletions
  /\ \E K \in {{l} : l \in TxLeafFiles(cache)}
               \cup {{t} : t \in TxAllFiles(cache)}
               \cup {{l, t} : l \in TxLeafFiles(cache), t \in TxAllFiles(cache)} :
       /\ cache' = [k \in DOMAIN cache \ K |-> cache[k]]
       /\ removed' = [n |-> removed.n + 1, run |-> run, keys |-> K]
  /\ UNCHANGED <<config, failing, keyTest, bnd, proc, tiling, workers, fetched, pc, run,
                 ix, acc, wr, ret, prev, calls, wlog, runWrites, startKeys,
                 prov, err>>

NextDel == Next \/ OperatorDelete

SpecDel == Init /\ [][NextDel]_vars

\* The operator deleted this leaf and the top-level entry before the run.
C28_Deleted(lf) ==
  /\ removed.run = run - 1
  /\ Cardinality(removed.keys) = 2
  /\ removed.keys = {TxYearKey(lf.pref, lf.year), TxAllKey}

C28_TxCalls == SelectSeq(calls, LAMBDA c : c.req.ep = "XIT001")

\* C28: in the run after the operator deleted the entry of one transaction
\* leaf together with the top-level entry, the only transaction requests
\* issued are those of that leaf, and when the task returns every request of
\* the leaf has been issued once and the rewritten top-level payload holds the
\* records they returned.
C28_DeletedLeafRefetched ==
  \A l \in DOMAIN TxLeaves :
    (removed.n > 0 /\ C28_Deleted(TxLeaves[l])) =>
      LET lf == TxLeaves[l]
          reqs == TxLeafRequests(lf.pref, lf.year)
      IN  /\ \A i \in DOMAIN C28_TxCalls : C28_TxCalls[i].req \in Range(reqs)
          /\ ret.tx.set =>
               /\ [i \in DOMAIN C28_TxCalls |-> C28_TxCalls[i].req] = reqs
               /\ TxAllKey \in ReadableKeys
               /\ \A r \in Range(TxLeafFetched(lf.pref, lf.year)) :
                    r \in Range(cache[TxAllKey].data)

---------------------------------------------------------------------------
\* Two acquisition processes started on the same cache directory.  Each runs
\* fetch_all_transactions with the full catalog; the cache holds no chunk of
\* the former scheme, so _migrate_old_pref_cache returns without a write.
\* The processes share nothing but the files of the cache, and the code takes
\* no lock on them: every read and every write of a file is a step of its
\* own, interleaved freely with the steps of the other process.

Workers == {1, 2}

Worker0 ==
  [pc |-> "start", leaf |-> 1, year_records |-> <<>>, all_records |-> <<>>,
   calls |-> <<>>, wrote |-> {}]

soloVars == <<config, failing, pc, run, ix, acc, wr, ret, prev, calls, wlog,
              runWrites, startKeys, prov, err, keyTest, bnd, proc, tiling,
              removed, fetched>>

WorkerLeaf(w) == TxLeaves[workers[w].leaf]

WorkerLeafKey(w) == TxYearKey(WorkerLeaf(w).pref, WorkerLeaf(w).year)

WorkerSet(w, rec) == workers' = [workers EXCEPT ![w] = rec]

\* cached = self._read_cache(all_cache_key)
WorkerStart(w) ==
  /\ workers[w].pc = "start"
  /\ LET c == ReadCache(TxAllKey)
     IN  IF ~c.ok THEN WorkerSet(w, [workers[w] EXCEPT !.pc = "aborted"])
         ELSE IF c.present
         THEN WorkerSet(w, [workers[w] EXCEPT !.pc = "done",
                                              !.all_records = c.data])
         ELSE WorkerSet(w, [workers[w] EXCEPT !.pc = "check"])
  /\ UNCHANGED <<cache, soloVars>>

\* year_cached = self._read_cache(year_cache_key), or the end of the loops.
WorkerCheck(w) ==
  /\ workers[w].pc = "check"
  /\ IF workers[w].leaf > Len(TxLeaves)
     THEN WorkerSet(w, [workers[w] EXCEPT !.pc = "open_all"])
     ELSE LET c == ReadCache(WorkerLeafKey(w))
          IN  IF ~c.ok THEN WorkerSet(w, [workers[w] EXCEPT !.pc = "aborted"])
              ELSE IF c.present
              THEN WorkerSet(w, [workers[w] EXCEPT
                                   !.all_records = @ \o c.data,
                                   !.leaf = @ + 1])
              ELSE WorkerSet(w, [workers[w] EXCEPT !.pc = "fetch"])
  /\ UNCHANGED <<cache, soloVars>>

\* The loops over the municipalities and the quarters of one leaf.
WorkerFetch(w) ==
  /\ workers[w].pc = "fetch"
  /\ WorkerSet(w, [workers[w] EXCEPT
         !.pc = "open",
         !.year_records = TxLeafFetched(WorkerLeaf(w).pref, WorkerLeaf(w).year),
         !.calls = @ \o TxLeafRequests(WorkerLeaf(w).pref, WorkerLeaf(w).year)])
  /\ UNCHANGED <<cache, soloVars>>

\* self._write_cache(year_cache_key, year_records): open(path, "w")
WorkerOpen(w) ==
  /\ workers[w].pc = "open"
  /\ cache' = OpenedFile(cache, WorkerLeafKey(w))
  /\ WorkerSet(w, [workers[w] EXCEPT !.pc = "dump"])
  /\ UNCHANGED soloVars

\* json.dump and close; all_records.extend(year_records)
WorkerDump(w) ==
  /\ workers[w].pc = "dump"
  /\ cache' = DumpedFile(cache, WorkerLeafKey(w), workers[w].year_records)
  /\ WorkerSet(w, [workers[w] EXCEPT
         !.pc = "check",
         !.wrote = @ \cup {WorkerLeafKey(w)},
         !.all_records = @ \o workers[w].year_records,
         !.year_records = <<>>,
         !.leaf = @ + 1])
  /\ UNCHANGED soloVars

\* self._write_cache(all_cache_key, all_records): open(path, "w")
WorkerOpenAll(w) ==
  /\ workers[w].pc = "open_all"
  /\ cache' = OpenedFile(cache, TxAllKey)
  /\ WorkerSet(w, [workers[w] EXCEPT !.pc = "dump_all"])
  /\ UNCHANGED soloVars

\* json.dump and close; return all_records
WorkerDumpAll(w) ==
  /\ workers[w].pc = "dump_all"
  /\ cache' = DumpedFile(cache, TxAllKey, workers[w].all_records)
  /\ WorkerSet(w, [workers[w] EXCEPT !.pc = "done"])
  /\ UNCHANGED soloVars

InitConc ==
  /\ config = BaseConfig
  /\ cache = EmptyCache
  /\ failing = {}
  /\ pc = "idle"
  /\ run = 0
  /\ ix = ix0 /\ acc = acc0 /\ wr = wr0
  /\ ret = ret0 /\ prev = ret0
  /\ calls = <<>> /\ wlog = <<>> /\ runWrites = <<>>
  /\ startKeys = {}
  /\ prov = EmptyProv
  /\ err = "none"
  /\ keyTest = NoKeyTest
  /\ bnd = NoBnd /\ proc = NoProc /\ tiling = NoTiling /\ removed = NoRemoval /\ fetched = {}
  /\ workers = [w \in Workers |-> Worker0]

NextConc ==
  \E w \in Workers :
    \/ WorkerStart(w)
    \/ WorkerCheck(w)
    \/ WorkerFetch(w)
    \/ WorkerOpen(w)
    \/ WorkerDump(w)
    \/ WorkerOpenAll(w)
    \/ WorkerDumpAll(w)

SpecConc == InitConc /\ [][NextConc]_vars

\* C29: no leaf key is fetched from the external source and written by both
\* of two processes that run concurrently against the same cache.
C29_NoLeafFetchedByBoth ==
  \A v, w \in Workers :
    v # w => workers[v].wrote \cap workers[w].wrote = {}

---------------------------------------------------------------------------
\* An entry of this name is in the cache directory, complete or not.
C30_Has(prefix) == \E k \in DOMAIN cache : k.prefix = prefix

\* C30 (cache hierarchy): when the top-level entry of the transactions exists,
\* so does the leaf of every year of every prefecture that has a municipality
\* in the catalog; when the top-level entry of the appraisals exists, so does
\* the merged entry of every year; and when the merged entry of a year
\* exists, so does the leaf of every region for that year.
C30_CacheHierarchy ==
  /\ C30_Has("transactions_all") =>
       \A l \in DOMAIN TxLeaves :
         C30_Has("tx_" \o JoinChars(TxLeaves[l].pref) \o "_"
                   \o ToString(TxLeaves[l].year))
  /\ C30_Has("official_prices_all") =>
       \A y \in Range(OFFICIAL_PRICE_YEARS) :
         C30_Has("official_prices_" \o ToString(y))
  /\ \A y \in Range(OFFICIAL_PRICE_YEARS) :
       C30_Has("official_prices_" \o ToString(y)) =>
         \A g \in Range(REGION_BBOXES) :
           C30_Has("official_" \o ToString(y) \o "_" \o g.name)

\* A run that found entries of an interrupted run and wrote further ones
\* has ended with both top-level entries in the cache.
C30_Witness ==
  /\ run >= 2
  /\ pc = "done"
  /\ startKeys # {}
  /\ runWrites # <<>>
  /\ C30_Has("transactions_all")
  /\ C30_Has("official_prices_all")
  /\ Len(TxLeaves) = 4

====
